---- MODULE Spec2Model ----
(***************************************************************************)
(* ChaosChain DVN proof of concept: the PoA package model (canonical       *)
(* serialization and hashing, content store), the Worker workflow, the     *)
(* Verifier evaluation pipeline and the consensus rule of the demo.        *)
(*                                                                         *)
(* Conventions of the model                                                *)
(*  - A Python/JSON value is a record of one fixed shape                   *)
(*    [tag, s, n, kv, l]: tag names the type; s holds a string as the      *)
(*    sequence of the pieces it was concatenated from (an f-string is the  *)
(*    sequence of its literal and interpolated parts); n holds a number    *)
(*    or a boolean; kv holds a dict as the sequence of its <<key, value>>  *)
(*    pairs in insertion order; l holds a list.                            *)
(*  - Floats are exact fixed-point numbers: 1.0 is SCALE.                  *)
(*  - sha256 is modelled as an injective function of the serialized bytes  *)
(*    (collision freedom is assumed, not checked).                         *)
(***************************************************************************)
EXTENDS Integers, Sequences, FiniteSets, TLC

----------------------------------------------------------------------------
(* Fixed point: every score the program computes is a multiple of 1/SCALE  *)
(* (sixths and tenths of item scores, means over at most five items,       *)
(* the 0.8 and 0.9 penalties, the tenths of the weights).                  *)

SCALE == 30000 * 120

Pct(p) == (p * SCALE) \div 100

Min2(a, b) == IF a <= b THEN a ELSE b

Max2(a, b) == IF a >= b THEN a ELSE b

Abs(a) == IF a >= 0 THEN a ELSE 0 - a

----------------------------------------------------------------------------
(* Python values *)

None == [tag |-> "null", s |-> <<>>, n |-> 0, kv |-> <<>>, l |-> <<>>]

Str(pieces) == [tag |-> "str", s |-> pieces, n |-> 0, kv |-> <<>>, l |-> <<>>]

S(lit) == Str(<<lit>>)

Num(x) == [tag |-> "num", s |-> <<>>, n |-> x, kv |-> <<>>, l |-> <<>>]

(* float('nan') *)
NaN == [tag |-> "num", s |-> <<"NaN">>, n |-> 0, kv |-> <<>>, l |-> <<>>]

(* Inside a container, a reference back to a container that holds it *)
Cycle == [tag |-> "cycle", s |-> <<>>, n |-> 0, kv |-> <<>>, l |-> <<>>]

Bool(b) == [tag |-> "bool", s |-> <<>>, n |-> IF b THEN 1 ELSE 0, kv |-> <<>>, l |-> <<>>]

Dict(pairs) == [tag |-> "dict", s |-> <<>>, n |-> 0, kv |-> pairs, l |-> <<>>]

List(elems) == [tag |-> "list", s |-> <<>>, n |-> 0, kv |-> <<>>, l |-> elems]

IsDict(v) == v.tag = "dict"

Keys(d) == {d.kv[i][1] : i \in 1..Len(d.kv)}

(* key in d *)
Has(d, k) == \E i \in 1..Len(d.kv) : d.kv[i][1] = k

(* d[k] for a key that is present *)
Get(d, k) == d.kv[CHOOSE i \in 1..Len(d.kv) : d.kv[i][1] = k][2]

(* d.get(k, default) *)
GetOr(d, k, default) == IF Has(d, k) THEN Get(d, k) ELSE default

(* d[k] = v: an existing key keeps its position, a new key goes last *)
Put(d, k, v) ==
    IF Has(d, k)
    THEN Dict([i \in 1..Len(d.kv) |-> IF d.kv[i][1] = k THEN <<k, v>> ELSE d.kv[i]])
    ELSE Dict(Append(d.kv, <<k, v>>))

(* {k: v for k, v in d.items() if k != key} *)
Without(d, key) == Dict(SelectSeq(d.kv, LAMBDA p : p[1] # key))

(* bool(v) *)
Truthy(v) ==
    CASE v.tag = "null" -> FALSE
      [] v.tag = "str"  -> v.s # <<>>
      [] v.tag = "num"  -> v.n # 0
      [] v.tag = "bool" -> v.n = 1
      [] v.tag = "dict" -> v.kv # <<>>
      [] v.tag = "list" -> v.l # <<>>

----------------------------------------------------------------------------
(* json.dumps(obj, sort_keys=True, separators=(',', ':'))                  *)

(* Every dict key of the program, in the order Python sorts strings. *)
SortedKeyTable ==
    << "action_type", "agent_id", "anomalies", "category", "confidence",
       "confidence_threshold", "content_quality_score", "created_by",
       "decision_reason", "description", "evaluation_confidence",
       "evaluation_notes", "evaluation_timestamp", "evidence",
       "evidence_quality_score", "inventory_data", "ipfs_hash",
       "item_list", "items", "location", "metadata", "name",
       "overall_score", "package_hash", "quantity", "scan_confidence",
       "scan_logs", "scan_metadata", "scan_method", "scan_timestamp",
       "schema_version", "section", "severity", "sku", "specialization",
       "status", "store_id", "structure_valid", "studio_id",
       "submission_id", "timestamp", "total_items_scanned", "type",
       "unit_price", "verification_duration", "verification_method",
       "verification_notes", "verifier_agent_id", "version",
       "worker_agent", "worker_agent_id" >>

KeyRankOf ==
    [k \in {SortedKeyTable[i] : i \in 1..Len(SortedKeyTable)} |->
        CHOOSE i \in 1..Len(SortedKeyTable) : SortedKeyTable[i] = k]

KeyRank(k) == KeyRankOf[k]

RECURSIVE InsertSorted(_, _)
InsertSorted(sorted, p) ==
    IF sorted = <<>> THEN <<p>>
    ELSE IF KeyRank(p[1]) < KeyRank(Head(sorted)[1])
         THEN <<p>> \o sorted
         ELSE <<Head(sorted)>> \o InsertSorted(Tail(sorted), p)

RECURSIVE SortItems(_)
SortItems(pairs) ==
    IF pairs = <<>> THEN <<>>
    ELSE InsertSorted(SortItems(SubSeq(pairs, 1, Len(pairs) - 1)), pairs[Len(pairs)])

RECURSIVE json_dumps(_, _)
RECURSIVE DumpPairs(_, _)
RECURSIVE DumpElems(_, _)

DumpPairs(pairs, sort_keys) ==
    IF pairs = <<>> THEN <<>>
    ELSE <<"key", Head(pairs)[1], ":">> \o json_dumps(Head(pairs)[2], sort_keys)
         \o (IF Len(pairs) > 1 THEN <<",">> ELSE <<>>)
         \o DumpPairs(Tail(pairs), sort_keys)

DumpElems(elems, sort_keys) ==
    IF elems = <<>> THEN <<>>
    ELSE json_dumps(Head(elems), sort_keys)
         \o (IF Len(elems) > 1 THEN <<",">> ELSE <<>>)
         \o DumpElems(Tail(elems), sort_keys)

json_dumps(v, sort_keys) ==
    CASE v.tag = "null" -> <<"null">>
      [] v.tag = "str"  -> <<"\"">> \o v.s \o <<"\"">>
      [] v.tag = "num"  -> IF v = NaN THEN <<"NaN">> ELSE <<"num", ToString(v.n)>>
      [] v.tag = "bool" -> <<IF v.n = 1 THEN "true" ELSE "false">>
      [] v.tag = "dict" -> <<"{">> \o DumpPairs(IF sort_keys THEN SortItems(v.kv) ELSE v.kv, sort_keys) \o <<"}">>
      [] v.tag = "list" -> <<"[">> \o DumpElems(v.l, sort_keys) \o <<"]">>

(* json.dumps raises ValueError (circular reference detected) when the     *)
(* value holds a container that holds itself; allow_nan is left at True.   *)
RECURSIVE json_dumps_raises(_)
json_dumps_raises(v) ==
    CASE v.tag = "cycle" -> TRUE
      [] v.tag = "dict"  -> \E i \in 1..Len(v.kv) : json_dumps_raises(v.kv[i][2])
      [] v.tag = "list"  -> \E i \in 1..Len(v.l) : json_dumps_raises(v.l[i])
      [] OTHER           -> FALSE

(* hashlib.sha256(text.encode()).hexdigest(): an injective image of the text *)
sha256_hexdigest(text) == Str(<<"sha256(">> \o text \o <<")">>)

----------------------------------------------------------------------------
(* constants.py *)

STUDIO_ID == "kirana_ai_poc"

SUPPORTED_ACTION_TYPES == <<"KiranaAI_StockReport", "KiranaAI_InventoryAudit", "KiranaAI_ReorderAlert">>

is_valid_action_type(action_type) ==
    \E i \in 1..Len(SUPPORTED_ACTION_TYPES) : SUPPORTED_ACTION_TYPES[i] = action_type

(* VERIFICATION_FEE_ETH = 0.0001, in units of 0.0001 ETH *)
VERIFICATION_FEE_ETH == 1

(* datetime.now(timezone.utc).isoformat(): an opaque instant *)
UtcNow == S("utcnow")

----------------------------------------------------------------------------
(* ipfs_client.py: IPFSClient *)

(* IPFSClient.__init__ with _connect inlined.  mock_mode_arg is "none",    *)
(* "true" or "false"; ipfs_available is the module flag IPFS_AVAILABLE;    *)
(* connect_ok tells whether ipfshttpclient.connect and version() succeed.  *)
(* _connect leaving the client in real mode when the connection fails *)
IPFSClient_connect_stays(self, ipfs_available, connect_ok) ==
    IF ~ipfs_available THEN [self EXCEPT !.mock_mode = TRUE]
    ELSE IF connect_ok THEN [self EXCEPT !.client = TRUE]
    ELSE [self EXCEPT !.client = FALSE]

IPFSClient_connect(self, ipfs_available, connect_ok) ==
    IF ~ipfs_available THEN [self EXCEPT !.mock_mode = TRUE]
    ELSE IF connect_ok THEN [self EXCEPT !.client = TRUE]
    ELSE [self EXCEPT !.mock_mode = TRUE, !.client = FALSE]

IPFSClient_init(mock_mode_arg, ipfs_available, connect_ok) ==
    LET mock == IF mock_mode_arg = "none" THEN ~ipfs_available ELSE mock_mode_arg = "true"
        self == [client |-> FALSE, mock_mode |-> mock]
    IN  IF ~self.mock_mode THEN IPFSClient_connect(self, ipfs_available, connect_ok) ELSE self

(* f"Qm{sha256(content)[:44]}" *)
generate_mock_ipfs_hash(content) == Str(<<"Qm">> \o sha256_hexdigest(content).s)

(* The package before the hash is attached: the dict literal of            *)
(* create_poa_package, in its insertion order.                             *)
PackageBody(submission_id, studio_id, worker_agent_id, action_type, inventory_data, evidence) ==
    Dict(<< <<"submission_id", submission_id>>,
            <<"studio_id", studio_id>>,
            <<"timestamp", UtcNow>>,
            <<"worker_agent_id", worker_agent_id>>,
            <<"action_type", action_type>>,
            <<"inventory_data", inventory_data>>,
            <<"evidence", IF Truthy(evidence) THEN evidence ELSE Dict(<<>>)>>,
            <<"metadata", Dict(<< <<"version", S("1.0")>>,
                                  <<"created_by", S("chaoschain-dvn-poc")>>,
                                  <<"schema_version", S("poa-package-v1")>> >>)>> >>)

(* json.dumps(package, sort_keys=True, separators=(',', ':')) then sha256. *)
(* The mutant leaves sort_keys out.                                        *)
PackageDigest_unsorted(package) == sha256_hexdigest(json_dumps(package, FALSE))

PackageDigest(package) == sha256_hexdigest(json_dumps(package, TRUE))

create_poa_package(submission_id, studio_id, worker_agent_id, action_type, inventory_data, evidence) ==
    LET package == PackageBody(submission_id, studio_id, worker_agent_id, action_type, inventory_data, evidence)
    IN  Put(package, "package_hash", PackageDigest(package))

(* create_poa_package raises when json.dumps of the package does *)
create_poa_package_raises(submission_id, studio_id, worker_agent_id, action_type, inventory_data, evidence) ==
    json_dumps_raises(PackageBody(submission_id, studio_id, worker_agent_id, action_type, inventory_data, evidence))

(* The content address a real node gives a JSON object (client.add_json) *)
add_json(package) == Str(<<"cid">> \o json_dumps(package, TRUE))

(* upload_poa_package.  add_outcome is what client.add_json does: "ok" or  *)
(* "raise".  The result is [ipfs_hash, stored]: the returned value (None   *)
(* when there is no client) and whether the node now holds the package.    *)
upload_poa_package(self, poa_package, add_outcome) ==
    LET package_json == <<"indent=2">> \o json_dumps(poa_package, TRUE)
    IN  IF self.mock_mode
        THEN [ipfs_hash |-> generate_mock_ipfs_hash(package_json), stored |-> FALSE]
        ELSE IF ~self.client
        THEN [ipfs_hash |-> None, stored |-> FALSE]
        ELSE IF add_outcome = "ok"
        THEN [ipfs_hash |-> add_json(poa_package), stored |-> TRUE]
        ELSE [ipfs_hash |-> generate_mock_ipfs_hash(package_json), stored |-> FALSE]

(* The hash check of retrieve_poa_package: recompute over every key but    *)
(* package_hash and compare.  The mutant hashes the package as retrieved.  *)
calculated_hash_of_whole(package) == PackageDigest(package)

calculated_hash_of(package) == PackageDigest(Without(package, "package_hash"))

(* "package_hash" in package, for whatever JSON value the node returned:   *)
(* a key test on a dict, an element test on a list, a substring test on a  *)
(* string, a TypeError on a number, a boolean or null.                     *)
ContainsPackageHash(package) ==
    CASE package.tag = "dict" -> Has(package, "package_hash")
      [] package.tag = "list" -> \E i \in 1..Len(package.l) : package.l[i] = S("package_hash")
      [] package.tag = "str"  -> \E i \in 1..Len(package.s) : package.s[i] = "package_hash"
      [] OTHER -> FALSE

(* retrieve_poa_package.  response is what client.get_json does:           *)
(* [raised, value].  Every exception inside the try block (get_json        *)
(* failing, `in` on a non-container, .items() on a non-dict) returns None. *)
retrieve_poa_package(self, response) ==
    IF self.mock_mode THEN None
    ELSE IF ~self.client THEN None
    ELSE IF response.raised THEN None
    ELSE LET package == response.value IN
         IF package.tag \in {"null", "num", "bool"} THEN None
         ELSE IF ContainsPackageHash(package)
              THEN IF ~IsDict(package) THEN None
                   ELSE IF calculated_hash_of(package) # Get(package, "package_hash")
                        THEN None
                        ELSE package
              ELSE package

(* create_sample_inventory_data *)
create_sample_inventory_data ==
    Dict(<< <<"store_id", S("store_123")>>,
            <<"scan_timestamp", UtcNow>>,
            <<"section", S("electronics")>>,
            <<"items", List(<<
                Dict(<< <<"sku", S("LAPTOP001")>>, <<"name", S("Gaming Laptop")>>,
                        <<"quantity", Num(5)>>, <<"location", S("Aisle-A-Shelf-2")>>,
                        <<"verification_method", S("barcode_scan")>>,
                        <<"confidence", Num(Pct(95))>>, <<"unit_price", Num(99999)>> >>),
                Dict(<< <<"sku", S("PHONE001")>>, <<"name", S("Smartphone")>>,
                        <<"quantity", Num(12)>>, <<"location", S("Aisle-A-Shelf-1")>>,
                        <<"verification_method", S("visual_inspection")>>,
                        <<"confidence", Num(Pct(88))>>, <<"unit_price", Num(59999)>> >>) >>)>>,
            <<"total_items_scanned", Num(17)>>,
            <<"verification_duration", S("00:15:30")>>,
            <<"anomalies", List(<<>>)>>,
            <<"verification_notes", S("Standard evening inventory check completed successfully")>> >>)

----------------------------------------------------------------------------
(* worker_agent.py: WorkerAgent *)

SAMPLE_INVENTORY_ITEMS ==
    << [sku |-> "LAPTOP001", name |-> "Gaming Laptop Dell G15", category |-> "electronics", unit_price |-> 85000, typical_quantity |-> 8],
       [sku |-> "PHONE001", name |-> "iPhone 15 Pro Max", category |-> "smartphones", unit_price |-> 159900, typical_quantity |-> 15],
       [sku |-> "TABLET001", name |-> "iPad Air M2", category |-> "tablets", unit_price |-> 59900, typical_quantity |-> 12],
       [sku |-> "WATCH001", name |-> "Apple Watch Series 9", category |-> "wearables", unit_price |-> 41900, typical_quantity |-> 20],
       [sku |-> "HEADPHONE001", name |-> "Sony WH-1000XM5", category |-> "accessories", unit_price |-> 29990, typical_quantity |-> 25] >>

WORKER_CONFIDENCE_THRESHOLD == Pct(80)

(* The private keys an agent can be constructed with, by the branch of     *)
(* __init__ they take; only a key Account.from_key accepts leaves          *)
(* simulation mode.                                                        *)
KeyKinds == {"none", "placeholder", "simulation", "short", "rejected", "valid"}

(* self.private_key after `private_key or os.getenv(...)`: whether there   *)
(* is one, its text, its length, and whether Account.from_key accepts it.  *)
PrivateKey(key_kind) ==
    CASE key_kind = "none"        -> [given |-> FALSE, text |-> "", length |-> 0, accepted |-> FALSE]
      [] key_kind = "placeholder" -> [given |-> TRUE, text |-> "your_private_key_here", length |-> 21, accepted |-> FALSE]
      [] key_kind = "simulation"  -> [given |-> TRUE, text |-> "simulation", length |-> 10, accepted |-> FALSE]
      [] key_kind = "short"       -> [given |-> TRUE, text |-> "0xabc123", length |-> 8, accepted |-> FALSE]
      [] key_kind = "rejected"    -> [given |-> TRUE, text |-> "<64 characters, not a key>", length |-> 64, accepted |-> FALSE]
      [] key_kind = "valid"       -> [given |-> TRUE, text |-> "<64 hex digits>", length |-> 64, accepted |-> TRUE]

(* The simulation_mode __init__ settles on.  The mutant lacks the except   *)
(* around Account.from_key.                                                *)
Agent_simulation_mode_unchecked(key_kind) ==
    LET private_key == PrivateKey(key_kind) IN
    \/ ~private_key.given
    \/ private_key.text = "your_private_key_here"
    \/ private_key.text = "simulation"
    \/ private_key.length < 64

Agent_simulation_mode(key_kind) ==
    LET private_key == PrivateKey(key_kind) IN
    IF \/ ~private_key.given
       \/ private_key.text = "your_private_key_here"
       \/ private_key.text = "simulation"
       \/ private_key.length < 64
    THEN TRUE
    ELSE ~private_key.accepted

(* The sections of the model and the categories they are a substring of:   *)
(* the three sections of the demo, and one that matches no category.       *)
Sections == {"electronics", "smartphones", "accessories", "gaming"}

SectionInCategory(section, category) == section = category

(* random.uniform(0.85, 0.98): one draw below and one above the 0.9 band *)
ScanConfidenceDraws == {Pct(87), Pct(95)}

(* random.randint(-int(base*0.2), int(base*0.2)): the lowest draw, which   *)
(* is the one that brings a quantity closest to the out-of-stock anomaly.  *)
VariationDraw(base_qty) == 0 - ((base_qty * 2) \div 10)

ScannedItem(item_template, variation, confidence) ==
    Dict(<< <<"sku", S(item_template.sku)>>,
            <<"name", S(item_template.name)>>,
            <<"category", S(item_template.category)>>,
            <<"quantity", Num(Max2(0, item_template.typical_quantity + variation))>>,
            <<"unit_price", Num(item_template.unit_price)>>,
            <<"location", S("Aisle-A-Shelf-1")>>,
            <<"verification_method", S("barcode_scan")>>,
            <<"confidence", Num(confidence)>>,
            <<"scan_timestamp", UtcNow>> >>)

(* _simulate_inventory_scan: the templates of the section, or all of them  *)
(* when none matches.                                                      *)
AvailableItems(section) ==
    LET matching == SelectSeq(SAMPLE_INVENTORY_ITEMS, LAMBDA it : SectionInCategory(section, it.category))
    IN  IF matching = <<>> THEN SAMPLE_INVENTORY_ITEMS ELSE matching

(* Every outcome of _simulate_inventory_scan under the draws above *)
simulate_inventory_scan(section) ==
    LET avail == AvailableItems(section)
        Draws == [1..Len(avail) -> ScanConfidenceDraws]
    IN  { [i \in 1..Len(avail) |->
             ScannedItem(avail[i], VariationDraw(avail[i].typical_quantity), d[i])]
          : d \in Draws }

RECURSIVE SumConfidence(_)
SumConfidence(items) ==
    IF items = <<>> THEN 0
    ELSE GetOr(Head(items), "confidence", Num(Pct(80))).n + SumConfidence(Tail(items))

calculate_scan_confidence(items) ==
    IF items = <<>> THEN 0 ELSE SumConfidence(items) \div Len(items)

RECURSIVE detect_anomalies(_)
detect_anomalies(items) ==
    IF items = <<>> THEN <<>>
    ELSE LET item == Head(items)
             out_of_stock ==
                 IF Get(item, "quantity").n = 0
                 THEN << Dict(<< <<"type", S("out_of_stock")>>, <<"sku", Get(item, "sku")>>,
                                 <<"description", Str(<<"Item ">> \o Get(item, "name").s \o <<" is out of stock">>)>>,
                                 <<"severity", S("high")>> >>) >>
                 ELSE <<>>
             low_confidence ==
                 IF Get(item, "confidence").n < WORKER_CONFIDENCE_THRESHOLD
                 THEN << Dict(<< <<"type", S("low_confidence")>>, <<"sku", Get(item, "sku")>>,
                                 <<"description", Str(<<"Low scan confidence: ", ToString(Get(item, "confidence").n)>>)>>,
                                 <<"severity", S("medium")>> >>) >>
                 ELSE <<>>
         IN  out_of_stock \o low_confidence \o detect_anomalies(Tail(items))

WorkerInitialState(self, store_id, section, action_type) ==
    [store_id |-> store_id, section |-> section, action_type |-> action_type,
     agent_id |-> self.agent_id,
     current_step |-> "initializing", status |-> "initializing", error_message |-> "",
     scan_completed |-> FALSE, items_scanned |-> <<>>, total_items |-> 0,
     scan_duration |-> Str(<<>>), anomalies |-> <<>>, scan_confidence |-> 0,
     poa_package |-> Dict(<<>>), package_hash |-> Str(<<>>), ipfs_hash |-> Str(<<>>),
     tx_hash |-> Str(<<>>), submission_id |-> Num(0), gas_used |-> 0,
     verification_fee_paid |-> 0, started_at |-> Str(<<>>), completed_at |-> Str(<<>>)]

initialize_scan(state) ==
    [state EXCEPT !.current_step = "scanning", !.status = "scanning",
                  !.scan_completed = FALSE, !.started_at = UtcNow]

perform_inventory_scan(state, scanned_items) ==
    [state EXCEPT !.current_step = "scan_completed", !.scan_completed = TRUE,
                  !.items_scanned = scanned_items, !.total_items = Len(scanned_items),
                  !.scan_duration = S("00:mm:ss"),
                  !.scan_confidence = calculate_scan_confidence(scanned_items),
                  !.anomalies = detect_anomalies(scanned_items)]

worker_create_poa_package(self, state) ==
    LET inventory_data ==
            Dict(<< <<"store_id", S(state.store_id)>>,
                    <<"scan_timestamp", UtcNow>>,
                    <<"section", S(state.section)>>,
                    <<"items", List(state.items_scanned)>>,
                    <<"total_items_scanned", Num(state.total_items)>>,
                    <<"verification_duration", state.scan_duration>>,
                    <<"scan_confidence", Num(state.scan_confidence)>>,
                    <<"anomalies", List(state.anomalies)>>,
                    <<"verification_notes", Str(<<"Automated scan by ", self.agent_id>>)>> >>)
        evidence ==
            Dict(<< <<"scan_logs", Str(<<"scan_log_", state.store_id, "_", "now">>)>>,
                    <<"verification_method", S("automated_barcode_scan")>>,
                    <<"agent_id", S(self.agent_id)>>,
                    <<"scan_metadata", Dict(<< <<"confidence_threshold", Num(WORKER_CONFIDENCE_THRESHOLD)>>,
                                               <<"scan_method", S("simulated")>> >>)>> >>)
        submission_id == Str(<<state.store_id, "_", state.action_type, "_", "now">>)
        poa == create_poa_package(submission_id, S(STUDIO_ID), S(self.agent_id),
                                  S(state.action_type), inventory_data, evidence)
    IN  [state EXCEPT !.current_step = "poa_created", !.poa_package = poa,
                      !.package_hash = Get(poa, "package_hash")]

(* upload_to_ipfs, given the value upload_poa_package returned.  The       *)
(* mutant writes the address into the package it uploaded.                 *)
upload_to_ipfs_stamps(state, ipfs_hash) ==
    IF Truthy(ipfs_hash)
    THEN [state EXCEPT !.current_step = "ipfs_uploaded", !.ipfs_hash = ipfs_hash,
                       !.poa_package = Put(state.poa_package, "ipfs_hash", ipfs_hash)]
    ELSE [state EXCEPT !.current_step = "ipfs_failed", !.ipfs_hash = state.package_hash,
                       !.error_message = "IPFS upload failed, using local hash"]

upload_to_ipfs(state, ipfs_hash) ==
    IF Truthy(ipfs_hash)
    THEN [state EXCEPT !.current_step = "ipfs_uploaded", !.ipfs_hash = ipfs_hash]
    ELSE [state EXCEPT !.current_step = "ipfs_failed", !.ipfs_hash = state.package_hash,
                       !.error_message = "IPFS upload failed, using local hash"]

(* submit_to_blockchain; chain_outcome is what the web3 calls of the real  *)
(* branch do: "ok" or "raise".                                             *)
(* submit_to_blockchain without the simulation branch *)
submit_to_blockchain_real(self, state, chain_outcome) ==
    IF chain_outcome = "ok"
    THEN [state EXCEPT !.current_step = "submitted", !.status = "submitted",
                       !.tx_hash = S("0x<receipt>"), !.submission_id = Num(1001),
                       !.gas_used = 300000, !.verification_fee_paid = VERIFICATION_FEE_ETH,
                       !.completed_at = UtcNow]
    ELSE [state EXCEPT !.current_step = "failed", !.status = "failed",
                       !.error_message = "web3 error"]

submit_to_blockchain(self, state, chain_outcome) ==
    IF self.simulation_mode
    THEN [state EXCEPT !.current_step = "submitted", !.status = "submitted",
                       !.tx_hash = S("0x<tx>"), !.submission_id = Num(1000),
                       !.gas_used = 250000, !.verification_fee_paid = VERIFICATION_FEE_ETH,
                       !.completed_at = UtcNow]
    ELSE IF chain_outcome = "ok"
    THEN [state EXCEPT !.current_step = "submitted", !.status = "submitted",
                       !.tx_hash = S("0x<receipt>"), !.submission_id = Num(1001),
                       !.gas_used = 300000, !.verification_fee_paid = VERIFICATION_FEE_ETH,
                       !.completed_at = UtcNow]
    ELSE [state EXCEPT !.current_step = "failed", !.status = "failed",
                       !.error_message = "web3 error"]

----------------------------------------------------------------------------
(* verifier_agent.py: VerifierAgent *)

VERIFIER_MIN_CONFIDENCE_THRESHOLD == Pct(70)

REQUIRED_EVIDENCE_TYPES == <<"scan_logs", "item_list">>

Specializations == {"general", "electronics", "inventory", "logistics"}

(* _get_evaluation_config.  Weights and thresholds are in tenths; the keys *)
(* the presets add that no code reads (required_fields,                    *)
(* high_value_item_threshold, anomaly_detection_weight) are left out.      *)
base_config ==
    [structure_weight |-> 3, content_weight |-> 4, evidence_weight |-> 3,
     min_approval_threshold |-> 7, confidence_threshold |-> 8]

(* _get_evaluation_config falling back to the first preset *)
get_evaluation_config_first(specialization) ==
    CASE specialization = "inventory"   -> [base_config EXCEPT !.evidence_weight = 4, !.structure_weight = 4]
      [] specialization = "general"     -> base_config
      [] OTHER                          -> [base_config EXCEPT !.content_weight = 5]

get_evaluation_config(specialization) ==
    CASE specialization = "electronics" -> [base_config EXCEPT !.content_weight = 5]
      [] specialization = "inventory"   -> [base_config EXCEPT !.evidence_weight = 4, !.structure_weight = 4]
      [] specialization = "general"     -> base_config
      [] OTHER                          -> base_config

(* VerifierAgent.__init__: IPFSClient() takes its defaults *)
VerifierAgent_init(key_kind, agent_id, specialization, ipfs_available, connect_ok) ==
    [agent_id |-> agent_id,
     specialization |-> specialization,
     private_key |-> PrivateKey(key_kind),
     simulation_mode |-> Agent_simulation_mode(key_kind),
     ipfs_client |-> IPFSClient_init("none", ipfs_available, connect_ok),
     evaluation_config |-> get_evaluation_config(specialization)]

(* initial_state of evaluate_submission *)
VerifierInitialState(self, submission_id) ==
    [submission_id |-> submission_id, agent_id |-> self.agent_id,
     current_step |-> "initializing", status |-> "initializing", error_message |-> "",
     submission_data |-> Dict(<<>>), poa_package |-> Dict(<<>>),
     ipfs_hash |-> Str(<<>>), package_hash |-> Str(<<>>),
     evaluation_completed |-> FALSE, structure_valid |-> FALSE,
     content_quality_score |-> 0, evidence_quality_score |-> 0,
     overall_score |-> 0, evaluation_confidence |-> 0, evaluation_notes |-> <<>>,
     attestation_decision |-> FALSE, attestation_evidence |-> Dict(<<>>),
     attestation_signature |-> Str(<<>>), tx_hash |-> Str(<<>>), gas_used |-> 0,
     started_at |-> Str(<<>>), completed_at |-> Str(<<>>)]

(* The except branch of evaluate_submission.  The mutant returns the       *)
(* initial state with the time of the failure only.                        *)
VerifierFailedState_unmarked(self, submission_id, message) ==
    [VerifierInitialState(self, submission_id) EXCEPT !.completed_at = UtcNow]

(* The except branch marking the step as the attestation node's own        *)
(* handler does.                                                           *)
VerifierFailedState_stepped(self, submission_id, message) ==
    [VerifierInitialState(self, submission_id) EXCEPT
        !.current_step = "failed",
        !.status = "failed", !.error_message = message, !.completed_at = UtcNow]

VerifierFailedState(self, submission_id, message) ==
    [VerifierInitialState(self, submission_id) EXCEPT
        !.status = "failed", !.error_message = message, !.completed_at = UtcNow]

initialize_evaluation(state) ==
    [state EXCEPT !.current_step = "fetching_submission", !.status = "evaluating",
                  !.evaluation_completed = FALSE, !.started_at = UtcNow]

(* f"{hash(submission_id):064x}"[:64] *)
MockPackageHash(submission_id) == Str(<<"hash(">> \o submission_id.s \o <<")">>)

(* random.uniform(0.7, 0.98) for an item of the mock package *)
MockConfidenceDraws == {Pct(70), Pct(95)}

(* random.randint(1, 5) items in the mock package: the draws of the model *)
MockItemCountDraws == {1, 2}

MockItem(i, confidence) ==
    Dict(<< <<"sku", Str(<<"ITEM", ToString(i - 1)>>)>>,
            <<"name", Str(<<"Test Item ", ToString(i - 1)>>)>>,
            <<"quantity", Num(50)>>,
            <<"location", S("Aisle-A-Shelf-1")>>,
            <<"verification_method", S("barcode_scan")>>,
            <<"confidence", Num(confidence)>>,
            <<"unit_price", Num(100)>> >>)

(* Every outcome of _generate_mock_poa_package under the draws above *)
generate_mock_poa_package(submission_id) ==
    { Dict(<< <<"submission_id", submission_id>>,
              <<"studio_id", S(STUDIO_ID)>>,
              <<"timestamp", UtcNow>>,
              <<"worker_agent_id", S("wa_<random>")>>,
              <<"action_type", S(SUPPORTED_ACTION_TYPES[1])>>,
              <<"inventory_data",
                Dict(<< <<"store_id", S("store_<random>")>>,
                        <<"scan_timestamp", UtcNow>>,
                        <<"section", S("electronics")>>,
                        <<"items", List([i \in 1..Len(confs) |-> MockItem(i, confs[i])])>>,
                        <<"total_items_scanned", Num(Len(confs))>>,
                        <<"scan_confidence", Num(Pct(80))>>,
                        <<"anomalies", List(<<>>)>> >>)>>,
              <<"evidence",
                Dict(<< <<"scan_logs", Str(<<"log_">> \o submission_id.s)>>,
                        <<"agent_id", S("wa_<random>")>>,
                        <<"verification_method", S("automated")>> >>)>>,
              <<"package_hash", MockPackageHash(submission_id)>> >>)
      : confs \in UNION {[1..k -> MockConfidenceDraws] : k \in MockItemCountDraws} }

(* fetch_submission_data.  response is what the node answers to get_json,  *)
(* mock_package what _generate_mock_poa_package would return.              *)
fetch_submission_data(self, state, response, mock_package) ==
    LET submission_id == state.submission_id
        mock_ipfs_hash == Str(<<"Qm", "hash(">> \o submission_id.s \o <<")", "aaaa">>)
        mock_submission ==
            Dict(<< <<"submission_id", submission_id>>,
                    <<"worker_agent", S("wa_<random>")>>,
                    <<"studio_id", S(STUDIO_ID)>>,
                    <<"ipfs_hash", mock_ipfs_hash>>,
                    <<"package_hash", MockPackageHash(submission_id)>>,
                    <<"timestamp", UtcNow>>,
                    <<"status", S("pending_attestation")>> >>)
        fetched == IF ~self.ipfs_client.mock_mode
                   THEN retrieve_poa_package(self.ipfs_client, response)
                   ELSE None
        package == IF ~Truthy(fetched) THEN mock_package ELSE fetched
    IN  [state EXCEPT !.current_step = "evaluating_structure",
                      !.submission_data = mock_submission,
                      !.poa_package = package,
                      !.ipfs_hash = mock_ipfs_hash,
                      !.package_hash = MockPackageHash(submission_id)]

(* Python's `needle in container` for a string needle: a key test on a     *)
(* dict, an element test on a list, a substring test on a string (a string *)
(* contains the needle when one of its pieces is the needle).              *)
InRaises(container) == container.tag \in {"null", "num", "bool"}

PyIn(needle, container) ==
    CASE container.tag = "dict" -> Has(container, needle)
      [] container.tag = "list" -> \E i \in 1..Len(container.l) : container.l[i] = S(needle)
      [] container.tag = "str"  -> \E i \in 1..Len(container.s) : container.s[i] = needle
      [] OTHER -> FALSE

REQUIRED_FIELDS ==
    <<"submission_id", "studio_id", "timestamp", "worker_agent_id",
      "action_type", "inventory_data", "evidence", "package_hash">>

REQUIRED_INVENTORY_FIELDS == <<"store_id", "scan_timestamp", "items", "total_items_scanned">>

RECURSIVE JoinWith(_, _)
JoinWith(strs, sep) ==
    IF strs = <<>> THEN <<>>
    ELSE IF Len(strs) = 1 THEN strs[1]
    ELSE strs[1] \o <<sep>> \o JoinWith(Tail(strs), sep)

(* evaluate_structure raises when inventory_data cannot be subscripted out *)
(* of the package or cannot be searched.                                   *)
evaluate_structure_raises(state) ==
    LET poa == state.poa_package IN
    /\ PyIn("inventory_data", poa)
    /\ \/ ~IsDict(poa)
       \/ InRaises(Get(poa, "inventory_data"))

(* evaluate_structure taking a fifth off the score for a missing inventory *)
(* field.                                                                  *)
evaluate_structure_fifth(state) ==
    LET poa == state.poa_package
        missing_fields == SelectSeq(REQUIRED_FIELDS, LAMBDA f : ~PyIn(f, poa))
        present == Len(REQUIRED_FIELDS) - Len(missing_fields)
        base_score == (present * SCALE) \div Len(REQUIRED_FIELDS)
        missing_note ==
            IF missing_fields # <<>>
            THEN << <<"Missing required fields: ">>
                    \o JoinWith([i \in 1..Len(missing_fields) |-> <<missing_fields[i]>>], ", ") >>
            ELSE <<>>
        missing_inventory ==
            IF PyIn("inventory_data", poa)
            THEN SelectSeq(REQUIRED_INVENTORY_FIELDS, LAMBDA f : ~PyIn(f, Get(poa, "inventory_data")))
            ELSE <<>>
        Reduce[k \in 0..Len(REQUIRED_INVENTORY_FIELDS)] ==
            IF k = 0 THEN base_score ELSE (Reduce[k - 1] * 8) \div 10
        structure_score == Reduce[Len(missing_inventory)]
        inventory_notes ==
            [i \in 1..Len(missing_inventory) |-> <<"Missing inventory field: ", missing_inventory[i]>>]
    IN  [state EXCEPT !.current_step = "evaluating_content",
                      !.structure_valid = (structure_score >= Pct(80)),
                      !.evaluation_notes = missing_note \o inventory_notes]

evaluate_structure(state) ==
    LET poa == state.poa_package
        missing_fields == SelectSeq(REQUIRED_FIELDS, LAMBDA f : ~PyIn(f, poa))
        present == Len(REQUIRED_FIELDS) - Len(missing_fields)
        base_score == (present * SCALE) \div Len(REQUIRED_FIELDS)
        missing_note ==
            IF missing_fields # <<>>
            THEN << <<"Missing required fields: ">>
                    \o JoinWith([i \in 1..Len(missing_fields) |-> <<missing_fields[i]>>], ", ") >>
            ELSE <<>>
        missing_inventory ==
            IF PyIn("inventory_data", poa)
            THEN SelectSeq(REQUIRED_INVENTORY_FIELDS, LAMBDA f : ~PyIn(f, Get(poa, "inventory_data")))
            ELSE <<>>
        Reduce[k \in 0..Len(REQUIRED_INVENTORY_FIELDS)] ==
            IF k = 0 THEN base_score ELSE (Reduce[k - 1] * 9) \div 10
        structure_score == Reduce[Len(missing_inventory)]
        inventory_notes ==
            [i \in 1..Len(missing_inventory) |-> <<"Missing inventory field: ", missing_inventory[i]>>]
    IN  [state EXCEPT !.current_step = "evaluating_content",
                      !.structure_valid = (structure_score >= Pct(80)),
                      !.evaluation_notes = missing_note \o inventory_notes]

IsNumber(v) == v.tag \in {"num", "bool"}

(* _evaluate_single_item raises on an item that is not a dict and on a     *)
(* confidence or quantity that cannot be compared with a number.           *)
evaluate_single_item_raises(item) ==
    \/ ~IsDict(item)
    \/ ~IsNumber(GetOr(item, "confidence", Num(0)))
    \/ ~IsNumber(GetOr(item, "quantity", Num(0)))

ITEM_REQUIRED_FIELDS == <<"sku", "name", "quantity", "location", "verification_method", "confidence">>

(* _evaluate_single_item returning the score as summed *)
evaluate_single_item_unclamped(item) ==
    LET present == Len(SelectSeq(ITEM_REQUIRED_FIELDS, LAMBDA f : Has(item, f)))
        fields_score == (present * SCALE) \div Len(ITEM_REQUIRED_FIELDS)
        confidence == GetOr(item, "confidence", Num(0)).n
        confidence_adj == IF confidence >= Pct(90) THEN Pct(10)
                          ELSE IF confidence < Pct(70) THEN 0 - Pct(10)
                          ELSE 0
        quantity == GetOr(item, "quantity", Num(0)).n
        quantity_adj == IF 0 <= quantity /\ quantity <= 1000 THEN Pct(5) ELSE 0
    IN  fields_score + confidence_adj + quantity_adj

evaluate_single_item(item) ==
    LET present == Len(SelectSeq(ITEM_REQUIRED_FIELDS, LAMBDA f : Has(item, f)))
        fields_score == (present * SCALE) \div Len(ITEM_REQUIRED_FIELDS)
        confidence == GetOr(item, "confidence", Num(0)).n
        confidence_adj == IF confidence >= Pct(90) THEN Pct(10)
                          ELSE IF confidence < Pct(70) THEN 0 - Pct(10)
                          ELSE 0
        quantity == GetOr(item, "quantity", Num(0)).n
        quantity_adj == IF 0 <= quantity /\ quantity <= 1000 THEN Pct(5) ELSE 0
    IN  Max2(0, Min2(SCALE, fields_score + confidence_adj + quantity_adj))

RECURSIVE SumItemScores(_)
SumItemScores(items) ==
    IF items = <<>> THEN 0 ELSE evaluate_single_item(Head(items)) + SumItemScores(Tail(items))

(* len(v) for the containers; a string counts its pieces *)
PyLen(v) ==
    CASE v.tag = "list" -> Len(v.l)
      [] v.tag = "dict" -> Len(v.kv)
      [] v.tag = "str"  -> Len(v.s)
      [] OTHER -> 0

ContentInventory(state) == GetOr(state.poa_package, "inventory_data", Dict(<<>>))

evaluate_content_quality_raises(state) ==
    \/ ~IsDict(state.poa_package)
    \/ ~IsDict(ContentInventory(state))
    \/ LET inventory_data == ContentInventory(state)
           items == GetOr(inventory_data, "items", List(<<>>))
       IN  /\ Truthy(items)
           /\ \/ items.tag # "list"
              \/ \E i \in 1..Len(items.l) : evaluate_single_item_raises(items.l[i])
              \/ InRaises(GetOr(inventory_data, "anomalies", List(<<>>)))
              \/ ~IsNumber(GetOr(inventory_data, "scan_confidence", Num(0)))

evaluate_content_quality(state) ==
    LET inventory_data == ContentInventory(state)
        items == GetOr(inventory_data, "items", List(<<>>))
        mean_score == SumItemScores(items.l) \div Len(items.l)
        anomalies == GetOr(inventory_data, "anomalies", List(<<>>))
        high_anomaly == 10 * PyLen(anomalies) > 3 * Len(items.l)
        after_anomaly == IF high_anomaly THEN (mean_score * 8) \div 10 ELSE mean_score
        scan_confidence == GetOr(inventory_data, "scan_confidence", Num(0)).n
        low_confidence == scan_confidence < VERIFIER_MIN_CONFIDENCE_THRESHOLD
        content_score == IF low_confidence THEN (after_anomaly * 9) \div 10 ELSE after_anomaly
    IN  IF ~Truthy(items)
        THEN [state EXCEPT !.current_step = "evaluating_evidence",
                           !.content_quality_score = 0,
                           !.evaluation_notes = Append(@, <<"No items found in inventory data">>)]
        ELSE [state EXCEPT !.current_step = "evaluating_evidence",
                           !.content_quality_score = content_score,
                           !.evaluation_notes =
                               @ \o (IF high_anomaly THEN << <<"High anomaly rate detected">> >> ELSE <<>>)
                                 \o (IF low_confidence
                                     THEN << <<"Low scan confidence: ", ToString(scan_confidence)>> >>
                                     ELSE <<>>)]

(* needle in str(v): the needle is a piece of a string, or a key or inside *)
(* a value of a dict, or inside an element of a list.                      *)
RECURSIVE ReprContains(_, _)
ReprContains(v, needle) ==
    CASE v.tag = "str"  -> \E i \in 1..Len(v.s) : v.s[i] = needle
      [] v.tag = "dict" -> \E i \in 1..Len(v.kv) : v.kv[i][1] = needle \/ ReprContains(v.kv[i][2], needle)
      [] v.tag = "list" -> \E i \in 1..Len(v.l) : ReprContains(v.l[i], needle)
      [] OTHER -> FALSE

PackageEvidence(state) == GetOr(state.poa_package, "evidence", Dict(<<>>))

(* evaluate_evidence_quality raises when evidence cannot be searched, or   *)
(* is a list or string without a required type (no .values()).             *)
evaluate_evidence_quality_raises(state) ==
    LET evidence == PackageEvidence(state) IN
    \/ InRaises(evidence)
    \/ /\ ~IsDict(evidence)
       /\ \E i \in 1..Len(REQUIRED_EVIDENCE_TYPES) : ~PyIn(REQUIRED_EVIDENCE_TYPES[i], evidence)

(* evaluate_evidence_quality without the cap *)
evaluate_evidence_quality_uncapped(state) ==
    LET evidence == PackageEvidence(state)
        found == SelectSeq(REQUIRED_EVIDENCE_TYPES,
                           LAMBDA t : \/ PyIn(t, evidence)
                                      \/ \E i \in 1..Len(evidence.kv) : ReprContains(evidence.kv[i][2], t))
        base == (Len(found) * SCALE) \div Len(REQUIRED_EVIDENCE_TYPES)
        bonus == (IF PyIn("verification_method", evidence) THEN Pct(10) ELSE 0)
                 + (IF PyIn("agent_id", evidence) THEN Pct(10) ELSE 0)
    IN  [state EXCEPT !.current_step = "calculating_final_score",
                      !.evidence_quality_score = base + bonus]

(* evaluate_evidence_quality starting a list of notes of its own, as       *)
(* evaluate_structure does.                                                *)
evaluate_evidence_quality_renotes(state) ==
    LET evidence == PackageEvidence(state)
        found == SelectSeq(REQUIRED_EVIDENCE_TYPES,
                           LAMBDA t : \/ PyIn(t, evidence)
                                      \/ \E i \in 1..Len(evidence.kv) : ReprContains(evidence.kv[i][2], t))
        base == (Len(found) * SCALE) \div Len(REQUIRED_EVIDENCE_TYPES)
        bonus == (IF PyIn("verification_method", evidence) THEN Pct(10) ELSE 0)
                 + (IF PyIn("agent_id", evidence) THEN Pct(10) ELSE 0)
    IN  [state EXCEPT !.current_step = "calculating_final_score",
                      !.evidence_quality_score = Min2(SCALE, base + bonus),
                      !.evaluation_notes = <<>>]

evaluate_evidence_quality(state) ==
    LET evidence == PackageEvidence(state)
        found == SelectSeq(REQUIRED_EVIDENCE_TYPES,
                           LAMBDA t : \/ PyIn(t, evidence)
                                      \/ \E i \in 1..Len(evidence.kv) : ReprContains(evidence.kv[i][2], t))
        base == (Len(found) * SCALE) \div Len(REQUIRED_EVIDENCE_TYPES)
        bonus == (IF PyIn("verification_method", evidence) THEN Pct(10) ELSE 0)
                 + (IF PyIn("agent_id", evidence) THEN Pct(10) ELSE 0)
    IN  [state EXCEPT !.current_step = "calculating_final_score",
                      !.evidence_quality_score = Min2(SCALE, base + bonus)]

(* calculate_final_evaluation approving above the threshold only *)
calculate_final_evaluation_above(self, state) ==
    LET structure_score == IF state.structure_valid THEN SCALE ELSE 0
        content_score == state.content_quality_score
        evidence_score == state.evidence_quality_score
        config == self.evaluation_config
        overall_score == (structure_score * config.structure_weight
                          + content_score * config.content_weight
                          + evidence_score * config.evidence_weight) \div 10
        score_variance == Abs(structure_score - content_score) + Abs(content_score - evidence_score)
    IN  [state EXCEPT !.current_step = "creating_attestation",
                      !.overall_score = overall_score,
                      !.evaluation_confidence = Max2(Pct(50), SCALE - (score_variance \div 2)),
                      !.attestation_decision = (overall_score * 10 > config.min_approval_threshold * SCALE),
                      !.evaluation_completed = TRUE]

(* calculate_final_evaluation without the floor of the confidence *)
calculate_final_evaluation_unfloored(self, state) ==
    LET structure_score == IF state.structure_valid THEN SCALE ELSE 0
        content_score == state.content_quality_score
        evidence_score == state.evidence_quality_score
        config == self.evaluation_config
        overall_score == (structure_score * config.structure_weight
                          + content_score * config.content_weight
                          + evidence_score * config.evidence_weight) \div 10
        score_variance == Abs(structure_score - content_score) + Abs(content_score - evidence_score)
    IN  [state EXCEPT !.current_step = "creating_attestation",
                      !.overall_score = overall_score,
                      !.evaluation_confidence = SCALE - (score_variance \div 2),
                      !.attestation_decision = (overall_score * 10 >= config.min_approval_threshold * SCALE),
                      !.evaluation_completed = TRUE]

calculate_final_evaluation(self, state) ==
    LET structure_score == IF state.structure_valid THEN SCALE ELSE 0
        content_score == state.content_quality_score
        evidence_score == state.evidence_quality_score
        config == self.evaluation_config
        overall_score == (structure_score * config.structure_weight
                          + content_score * config.content_weight
                          + evidence_score * config.evidence_weight) \div 10
        score_variance == Abs(structure_score - content_score) + Abs(content_score - evidence_score)
    IN  [state EXCEPT !.current_step = "creating_attestation",
                      !.overall_score = overall_score,
                      !.evaluation_confidence = Max2(Pct(50), SCALE - (score_variance \div 2)),
                      !.attestation_decision = (overall_score * 10 >= config.min_approval_threshold * SCALE),
                      !.evaluation_completed = TRUE]

(* _generate_decision_reason joining every note *)
generate_decision_reason_all(state) ==
    IF state.attestation_decision
    THEN IF state.overall_score >= Pct(90)
         THEN <<"Excellent submission quality with complete evidence and accurate data">>
         ELSE IF state.overall_score >= Pct(80)
         THEN <<"Good submission quality with minor issues that do not affect validity">>
         ELSE <<"Acceptable submission quality meeting minimum requirements">>
    ELSE IF state.evaluation_notes # <<>>
         THEN <<"Submission rejected due to: ">> \o JoinWith(state.evaluation_notes, "; ")
         ELSE <<"Submission quality score ", ToString(state.overall_score), " below approval threshold">>

generate_decision_reason(state) ==
    IF state.attestation_decision
    THEN IF state.overall_score >= Pct(90)
         THEN <<"Excellent submission quality with complete evidence and accurate data">>
         ELSE IF state.overall_score >= Pct(80)
         THEN <<"Good submission quality with minor issues that do not affect validity">>
         ELSE <<"Acceptable submission quality meeting minimum requirements">>
    ELSE IF state.evaluation_notes # <<>>
         THEN <<"Submission rejected due to: ">>
              \o JoinWith(SubSeq(state.evaluation_notes, 1, Min2(3, Len(state.evaluation_notes))), "; ")
         ELSE <<"Submission quality score ", ToString(state.overall_score), " below approval threshold">>

(* The attestation evidence with the scores of a state that was never      *)
(* evaluated.                                                              *)
AttestationEvidence_blank(self, state) ==
    Dict(<< <<"verifier_agent_id", S(self.agent_id)>>,
            <<"specialization", S(self.specialization)>>,
            <<"overall_score", Num(0)>>,
            <<"evaluation_confidence", Num(0)>>,
            <<"structure_valid", Bool(state.structure_valid)>>,
            <<"content_quality_score", Num(state.content_quality_score)>>,
            <<"evidence_quality_score", Num(state.evidence_quality_score)>>,
            <<"evaluation_notes", List([i \in 1..Len(state.evaluation_notes) |-> Str(state.evaluation_notes[i])])>>,
            <<"evaluation_timestamp", UtcNow>>,
            <<"decision_reason", Str(generate_decision_reason(state))>> >>)

AttestationEvidence(self, state) ==
    Dict(<< <<"verifier_agent_id", S(self.agent_id)>>,
            <<"specialization", S(self.specialization)>>,
            <<"overall_score", Num(state.overall_score)>>,
            <<"evaluation_confidence", Num(state.evaluation_confidence)>>,
            <<"structure_valid", Bool(state.structure_valid)>>,
            <<"content_quality_score", Num(state.content_quality_score)>>,
            <<"evidence_quality_score", Num(state.evidence_quality_score)>>,
            <<"evaluation_notes", List([i \in 1..Len(state.evaluation_notes) |-> Str(state.evaluation_notes[i])])>>,
            <<"evaluation_timestamp", UtcNow>>,
            <<"decision_reason", Str(generate_decision_reason(state))>> >>)

HexDigits == <<"0", "1", "2", "3", "4", "5", "6", "7", "8", "9", "a", "b", "c", "d", "e", "f">>

(* k of the mock signature: random.choices('0123456789abcdef', k=130) *)
MOCK_SIGNATURE_HEX_CHARS == 130

(* ''.join(random.choices('0123456789abcdef', k=k)), character by          *)
(* character: one draw.                                                    *)
RandomHex(k) == [i \in 1..k |-> HexDigits[((i * 7) % 16) + 1]]

(* What the try block of create_and_submit_attestation can do outside      *)
(* simulation mode: run through ("ok"), raise in account.signHash          *)
(* ("raise"), or raise in the submission that follows the signing          *)
(* ("raise_after_sign").                                                   *)
SignOutcomes == {"ok", "raise", "raise_after_sign"}

(* create_and_submit_attestation with the transaction hash drawn before   *)
(* the try block and kept in the failed result.                            *)
create_and_submit_attestation_tx_first(self, state, sign_outcome) ==
    LET attestation_evidence == AttestationEvidence(self, state) IN
    IF self.simulation_mode
    THEN [state EXCEPT !.current_step = "completed", !.status = "completed",
                       !.attestation_evidence = attestation_evidence,
                       !.attestation_signature = Str(<<"0x">> \o RandomHex(MOCK_SIGNATURE_HEX_CHARS)),
                       !.tx_hash = S("0x<64 hex>"), !.gas_used = 200000,
                       !.completed_at = UtcNow]
    ELSE IF sign_outcome = "ok"
    THEN [state EXCEPT !.current_step = "completed", !.status = "completed",
                       !.attestation_evidence = attestation_evidence,
                       !.attestation_signature = Str(<<"sign(">> \o json_dumps(attestation_evidence, TRUE) \o <<")">>),
                       !.tx_hash = S("0x<64 hex>"), !.gas_used = 200000,
                       !.completed_at = UtcNow]
    ELSE [state EXCEPT !.current_step = "failed", !.status = "failed",
                       !.error_message = IF sign_outcome = "raise" THEN "signing error"
                                         ELSE "submission error",
                       !.tx_hash = S("0x<64 hex>"),
                       !.completed_at = UtcNow]

(* create_and_submit_attestation; sign_outcome is what its try block does  *)
(* outside simulation mode; error_message is str(e).                       *)
create_and_submit_attestation(self, state, sign_outcome) ==
    LET attestation_evidence == AttestationEvidence(self, state) IN
    IF self.simulation_mode
    THEN [state EXCEPT !.current_step = "completed", !.status = "completed",
                       !.attestation_evidence = attestation_evidence,
                       !.attestation_signature = Str(<<"0x">> \o RandomHex(MOCK_SIGNATURE_HEX_CHARS)),
                       !.tx_hash = S("0x<64 hex>"), !.gas_used = 200000,
                       !.completed_at = UtcNow]
    ELSE IF sign_outcome = "ok"
    THEN [state EXCEPT !.current_step = "completed", !.status = "completed",
                       !.attestation_evidence = attestation_evidence,
                       !.attestation_signature = Str(<<"sign(">> \o json_dumps(attestation_evidence, TRUE) \o <<")">>),
                       !.tx_hash = S("0x<64 hex>"), !.gas_used = 200000,
                       !.completed_at = UtcNow]
    ELSE [state EXCEPT !.current_step = "failed", !.status = "failed",
                       !.error_message = IF sign_outcome = "raise" THEN "signing error"
                                         ELSE "submission error",
                       !.completed_at = UtcNow]

----------------------------------------------------------------------------
(* State *)

VARIABLES
    ipfs,            \* the IPFSClient of the running agent: [client, mock_mode]
    node_content,    \* the JSON object the IPFS node holds (None: nothing)
    node_addr,       \* the address the node holds it under
    pc,              \* where the caller of the package model stands
    call,            \* the entry point called and its action_type argument
    poa_package,     \* the package create_poa_package returned to a direct caller
    ipfs_hash,       \* what upload_poa_package returned to a direct caller
    node_response,   \* what client.get_json did for the last retrieval: [raised, value]
    retrieved,       \* what retrieve_poa_package returned
    tamper,          \* what happened to the stored object: "none", "value", "reorder", "strip"
    worker,          \* the WorkerAgent: [agent_id, simulation_mode]
    wstate,          \* the WorkerAgentState flowing through the workflow
    raised,          \* the exception that escaped to the caller ("" if none)
    verifier,        \* the VerifierAgent: [agent_id, specialization, simulation_mode, ipfs_client, evaluation_config]
    vstate,          \* the VerifierAgentState flowing through the workflow
    vpc,             \* the node of the verifier workflow that runs next
    vresponse,       \* what the node answered to this verifier's get_json: [asked, raised, value]
    vsign,           \* what the try block of the attestation step did: "" (not entered), "ok", "raise", "raise_after_sign"
    verifier_results,   \* run_full_dvn_demo: the evaluation results collected so far
    attestation_count,  \* run_full_dvn_demo: approvals counted so far
    dpc,                \* run_full_dvn_demo: "evaluating" or "done"
    consensus,          \* run_full_dvn_demo: what Phase 3 computed and printed
    fleet,              \* the VerifierAgents of one scenario, by position in the loop
    fstate,             \* the VerifierAgentState of each agent's workflow
    fpc,                \* the node of each agent's workflow that runs next
    fdraw,              \* what each agent's run draws: [response, mock_package]
    fnode               \* what the node holds under the address the agents ask for

pkgvars == <<ipfs, node_content, node_addr, pc, call, poa_package, ipfs_hash,
             node_response, retrieved, tamper, worker, wstate, raised>>

vervars == <<verifier, vstate, vpc, vresponse, vsign>>

demovars == <<verifier_results, attestation_count, dpc, consensus>>

fleetvars == <<fleet, fstate, fpc, fdraw, fnode>>

vars == <<pkgvars, vervars, demovars, fleetvars>>

----------------------------------------------------------------------------
(* The package model called directly (test_ipfs_integration), the content  *)
(* store, and the Worker workflow.                                         *)

ActionTypeInputs == {"KiranaAI_StockReport", "KiranaAI_InventoryAudit", "KiranaAI_ReorderAlert", "Unsupported_Action"}

(* reversed(d.items()) as a dict: the same mapping inserted in the         *)
(* opposite order.                                                         *)
ReverseKeys(d) == Dict([i \in 1..Len(d.kv) |-> d.kv[Len(d.kv) + 1 - i]])

(* The same mapping with the keys at positions i and i+1 inserted in the   *)
(* other order.                                                            *)
SwapKeys(d, i) ==
    Dict([j \in 1..Len(d.kv) |-> IF j = i THEN d.kv[i + 1] ELSE IF j = i + 1 THEN d.kv[i] ELSE d.kv[j]])

InventoryInputs ==
    { create_sample_inventory_data,
      ReverseKeys(create_sample_inventory_data),
      Dict(<< <<"store_id", S("store_456")>>, <<"items", List(<<>>)>> >>),
      Dict(<< <<"store_id", S("store_456")>>, <<"items", List(<<>>)>>, <<"scan_confidence", NaN>> >>),
      Dict(<< <<"store_id", S("store_456")>>, <<"items", List(<<>>)>>, <<"anomalies", List(<<Cycle>>)>> >>) }

EvidenceInputs ==
    { None,
      Dict(<< <<"scan_logs", S("log_1")>>, <<"item_list", S("items_1")>> >>),
      Dict(<< <<"item_list", S("items_1")>>, <<"scan_logs", S("log_1")>> >>) }

StoreIds == {"store_123"}

PkgInit ==
    /\ ipfs \in {IPFSClient_init(m, a, c) : m \in {"none", "true", "false"}, a \in BOOLEAN, c \in BOOLEAN}
    /\ worker = [agent_id |-> "", simulation_mode |-> TRUE]
    /\ node_content = None
    /\ node_addr = None
    /\ pc = "start"
    /\ call = [fn |-> "", action_type |-> ""]
    /\ poa_package = Dict(<<>>)
    /\ ipfs_hash = None
    /\ node_response = [raised |-> FALSE, value |-> None]
    /\ retrieved = None
    /\ tamper = "none"
    /\ wstate = WorkerInitialState([agent_id |-> ""], "", "", "")
    /\ raised = ""

(* client.create_poa_package(...) called directly *)
BuildPackage ==
    /\ pc = "start"
    /\ \E action_type \in ActionTypeInputs, inventory_data \in InventoryInputs, evidence \in EvidenceInputs :
          /\ call' = [fn |-> "create_poa_package", action_type |-> action_type]
          /\ IF create_poa_package_raises(S("test_submission_001"), S(STUDIO_ID), S("wa_test_001"),
                                          S(action_type), inventory_data, evidence)
             THEN /\ raised' = "ValueError"
                  /\ pc' = "raised"
                  /\ UNCHANGED poa_package
             ELSE /\ poa_package' = create_poa_package(S("test_submission_001"), S(STUDIO_ID), S("wa_test_001"),
                                                       S(action_type), inventory_data, evidence)
                  /\ pc' = "built"
                  /\ UNCHANGED raised
    /\ UNCHANGED <<ipfs, node_content, node_addr, ipfs_hash, node_response, retrieved, tamper, worker, wstate, vervars, demovars, fleetvars>>

(* client.upload_poa_package(poa_package) called directly *)
UploadPackage ==
    /\ pc = "built"
    /\ \E add_outcome \in {"ok", "raise"} :
          LET r == upload_poa_package(ipfs, poa_package, add_outcome) IN
          /\ ipfs_hash' = r.ipfs_hash
          /\ node_content' = IF r.stored THEN poa_package ELSE node_content
          /\ node_addr' = IF r.stored THEN r.ipfs_hash ELSE node_addr
    /\ pc' = "uploaded"
    /\ UNCHANGED <<ipfs, call, poa_package, node_response, retrieved, tamper, worker, wstate, raised, vervars, demovars, fleetvars>>

(* The stored object with the value of one field changed: a top-level      *)
(* field (package_hash included), or a field inside inventory_data.        *)
ValueTampers(p) ==
    {Put(p, k, S("tampered")) : k \in Keys(p)}
    \cup {Put(p, "timestamp", S("utcnow+1"))}
    \cup (IF Has(p, "inventory_data") /\ IsDict(Get(p, "inventory_data"))
          THEN {Put(p, "inventory_data", Put(Get(p, "inventory_data"), k, S("tampered")))
                    : k \in Keys(Get(p, "inventory_data"))}
          ELSE {})

(* The same value with every dict in it, at every depth, inserted in the   *)
(* opposite order.                                                         *)
RECURSIVE DeepReverse(_)
DeepReverse(v) ==
    CASE v.tag = "dict" ->
            Dict([i \in 1..Len(v.kv) |->
                    <<v.kv[Len(v.kv) + 1 - i][1], DeepReverse(v.kv[Len(v.kv) + 1 - i][2])>>])
      [] v.tag = "list" -> List([i \in 1..Len(v.l) |-> DeepReverse(v.l[i])])
      [] OTHER -> v

(* The stored object with its keys in another insertion order *)
KeyReorders(p) ==
    {ReverseKeys(p), DeepReverse(p)}
    \cup {SwapKeys(p, i) : i \in 1..(Len(p.kv) - 1)}
    \cup (IF Has(p, "inventory_data") /\ IsDict(Get(p, "inventory_data"))
          THEN {Put(p, "inventory_data", ReverseKeys(Get(p, "inventory_data")))}
               \cup {Put(p, "inventory_data", SwapKeys(Get(p, "inventory_data"), i))
                        : i \in 1..(Len(Get(p, "inventory_data").kv) - 1)}
          ELSE {})

(* The environment changes one field of the stored object *)
TamperStored ==
    /\ pc = "uploaded"
    /\ node_content # None
    /\ tamper = "none"
    /\ node_content' \in ValueTampers(node_content)
    /\ tamper' = "value"
    /\ UNCHANGED <<ipfs, node_addr, pc, call, poa_package, ipfs_hash, node_response, retrieved, worker, wstate, raised, vervars, demovars, fleetvars>>

(* The store hands the object back with its keys in another order *)
ReorderStored ==
    /\ pc = "uploaded"
    /\ node_content # None
    /\ tamper = "none"
    /\ node_content' \in KeyReorders(node_content)
    /\ tamper' = "reorder"
    /\ UNCHANGED <<ipfs, node_addr, pc, call, poa_package, ipfs_hash, node_response, retrieved, worker, wstate, raised, vervars, demovars, fleetvars>>

(* The stored object loses its package_hash field *)
StripStored ==
    /\ pc = "uploaded"
    /\ node_content # None
    /\ tamper = "none"
    /\ node_content' = Without(node_content, "package_hash")
    /\ tamper' = "strip"
    /\ UNCHANGED <<ipfs, node_addr, pc, call, poa_package, ipfs_hash, node_response, retrieved, worker, wstate, raised, vervars, demovars, fleetvars>>

(* What client.get_json can do: fail, or return the stored object *)
NodeResponses ==
    {[raised |-> TRUE, value |-> None]}
    \cup (IF node_content # None THEN {[raised |-> FALSE, value |-> node_content]} ELSE {})

(* client.retrieve_poa_package(ipfs_hash) called directly *)
RetrievePackage ==
    /\ pc = "uploaded"
    /\ \E response \in NodeResponses :
          /\ node_response' = IF ipfs.mock_mode \/ ~ipfs.client THEN node_response ELSE response
          /\ retrieved' = retrieve_poa_package(ipfs, response)
    /\ pc' = "retrieved"
    /\ UNCHANGED <<ipfs, node_content, node_addr, call, poa_package, ipfs_hash, tamper, worker, wstate, raised, vervars, demovars, fleetvars>>

(* WorkerAgent.__init__, as far as the workflow depends on it *)
WorkerAgent_init(key_kind) ==
    [agent_id |-> "wa_1234", simulation_mode |-> Agent_simulation_mode(key_kind)]

(* WorkerAgent(private_key).execute_verification(store_id, section,        *)
(* action_type) up to the start of the workflow                            *)
ExecuteVerification ==
    /\ pc = "start"
    /\ \E key_kind \in KeyKinds, store_id \in StoreIds, section \in Sections, action_type \in ActionTypeInputs :
          /\ worker' = WorkerAgent_init(key_kind)
          /\ call' = [fn |-> "execute_verification", action_type |-> action_type]
          /\ IF ~is_valid_action_type(action_type)
             THEN /\ raised' = "ValueError"
                  /\ pc' = "raised"
                  /\ UNCHANGED wstate
             ELSE /\ wstate' = WorkerInitialState(worker', store_id, section, action_type)
                  /\ pc' = "initialize"
                  /\ UNCHANGED raised
    /\ UNCHANGED <<ipfs, node_content, node_addr, poa_package, ipfs_hash, node_response, retrieved, tamper, vervars, demovars, fleetvars>>

WorkerInitialize ==
    /\ pc = "initialize"
    /\ wstate' = initialize_scan(wstate)
    /\ pc' = "scan"
    /\ UNCHANGED <<ipfs, node_content, node_addr, call, poa_package, ipfs_hash, node_response, retrieved, tamper, worker, raised, vervars, demovars, fleetvars>>

WorkerScan ==
    /\ pc = "scan"
    /\ \E scanned_items \in simulate_inventory_scan(wstate.section) :
          wstate' = perform_inventory_scan(wstate, scanned_items)
    /\ pc' = "create_poa"
    /\ UNCHANGED <<ipfs, node_content, node_addr, call, poa_package, ipfs_hash, node_response, retrieved, tamper, worker, raised, vervars, demovars, fleetvars>>

WorkerCreatePoa ==
    /\ pc = "create_poa"
    /\ wstate' = worker_create_poa_package(worker, wstate)
    /\ pc' = "upload"
    /\ UNCHANGED <<ipfs, node_content, node_addr, call, poa_package, ipfs_hash, node_response, retrieved, tamper, worker, raised, vervars, demovars, fleetvars>>

WorkerUpload ==
    /\ pc = "upload"
    /\ \E add_outcome \in {"ok", "raise"} :
          LET r == upload_poa_package(ipfs, wstate.poa_package, add_outcome) IN
          /\ wstate' = upload_to_ipfs(wstate, r.ipfs_hash)
          /\ node_content' = IF r.stored THEN wstate.poa_package ELSE node_content
          /\ node_addr' = IF r.stored THEN r.ipfs_hash ELSE node_addr
    /\ pc' = "submit"
    /\ UNCHANGED <<ipfs, call, poa_package, ipfs_hash, node_response, retrieved, tamper, worker, raised, vervars, demovars, fleetvars>>

WorkerSubmit ==
    /\ pc = "submit"
    /\ \E chain_outcome \in {"ok", "raise"} :
          wstate' = submit_to_blockchain(worker, wstate, chain_outcome)
    /\ pc' = "returned"
    /\ UNCHANGED <<ipfs, node_content, node_addr, call, poa_package, ipfs_hash, node_response, retrieved, tamper, worker, raised, vervars, demovars, fleetvars>>

(* The state of the package model while another part of the system runs *)
PkgIdle ==
    /\ ipfs = [client |-> FALSE, mock_mode |-> TRUE]
    /\ worker = [agent_id |-> "", simulation_mode |-> TRUE]
    /\ node_content = None
    /\ node_addr = None
    /\ pc = "idle"
    /\ call = [fn |-> "", action_type |-> ""]
    /\ poa_package = Dict(<<>>)
    /\ ipfs_hash = None
    /\ node_response = [raised |-> FALSE, value |-> None]
    /\ retrieved = None
    /\ tamper = "none"
    /\ wstate = WorkerInitialState([agent_id |-> ""], "", "", "")
    /\ raised = ""

----------------------------------------------------------------------------
(* The Verifier workflow: VerifierAgent(...).evaluate_submission(id)       *)

SubmissionIds == {S("sub_1")}

(* Evidence that names both required evidence types *)
CompleteEvidence ==
    Dict(<< <<"scan_logs", S("log_1")>>, <<"item_list", S("items_1")>>,
            <<"verification_method", S("automated_barcode_scan")>> >>)

(* A package the Worker side built from the sample inventory *)
GoodPackage ==
    create_poa_package(S("sub_1"), S(STUDIO_ID), S("wa_1234"), S("KiranaAI_StockReport"),
                       create_sample_inventory_data, CompleteEvidence)

(* A hashed package with no items, no scan fields and no evidence *)
PoorPackage ==
    create_poa_package(S("sub_1"), S(STUDIO_ID), S("wa_1234"), S("KiranaAI_StockReport"),
                       Dict(<< <<"store_id", S("store_123")>>, <<"items", List(<<>>)>> >>), None)

(* A hashed package whose only item is not a record *)
BadItemPackage ==
    create_poa_package(S("sub_1"), S(STUDIO_ID), S("wa_1234"), S("KiranaAI_StockReport"),
                       Dict(<< <<"store_id", S("store_123")>>, <<"items", List(<<S("LAPTOP001")>>)>> >>),
                       CompleteEvidence)

(* The sample inventory with a reported scan confidence *)
ScannedInventory(scan_confidence) ==
    Put(create_sample_inventory_data, "scan_confidence", Num(scan_confidence))

(* A stored object whose package_hash is the digest of its other fields *)
Sealed(package) ==
    LET body == Without(package, "package_hash")
    IN  Put(body, "package_hash", PackageDigest(body))

WithInventory(inventory_data) == Sealed(Put(GoodPackage, "inventory_data", inventory_data))

WithEvidence(evidence) == Sealed(Put(GoodPackage, "evidence", evidence))

RECURSIVE WithoutAll(_, _)
WithoutAll(d, keys) ==
    IF keys = <<>> THEN d ELSE WithoutAll(Without(d, Head(keys)), Tail(keys))

(* Stored objects that lack top-level or inventory fields *)
StructureSamples ==
    { Sealed(Without(GoodPackage, "timestamp")),
      WithoutAll(WithInventory(ScannedInventory(Pct(95))), <<"timestamp", "package_hash">>),
      Sealed(Without(GoodPackage, "inventory_data")),
      WithInventory(Without(ScannedInventory(Pct(95)), "scan_timestamp")),
      WithInventory(WithoutAll(ScannedInventory(Pct(95)), <<"scan_timestamp", "total_items_scanned">>)),
      WithInventory(WithoutAll(ScannedInventory(Pct(95)), <<"store_id", "scan_timestamp", "total_items_scanned">>)) }

(* Stored objects that differ in items, anomalies and scan confidence *)
ContentSamples ==
    { WithInventory(ScannedInventory(Pct(95))),
      WithInventory(ScannedInventory(Pct(70))),
      WithInventory(Put(ScannedInventory(Pct(95)), "items", List(<<>>))),
      WithInventory(WithoutAll(create_sample_inventory_data,
                               <<"store_id", "scan_timestamp", "total_items_scanned">>)),
      WithInventory(Put(ScannedInventory(Pct(95)), "anomalies", List(<<S("stock mismatch")>>))),
      WithInventory(Put(create_sample_inventory_data, "anomalies", List(<<S("stock mismatch")>>))),
      WithInventory(Put(ScannedInventory(Pct(95)), "items",
                        List(<< Dict(<< <<"sku", S("LAPTOP001")>> >>) >>))),
      WithInventory(Put(ScannedInventory(Pct(95)), "items",
                        List(<< Dict(<< <<"sku", S("LAPTOP001")>>, <<"name", S("Gaming Laptop")>>,
                                        <<"quantity", Num(5000)>>, <<"confidence", Num(Pct(50))>> >>),
                                Dict(<<>>) >>))) }

(* Stored objects that differ in evidence *)
EvidenceSamples ==
    { WithEvidence(Dict(<< <<"scan_logs", S("log_1")>>, <<"item_list", S("items_1")>> >>)),
      WithEvidence(Dict(<< <<"scan_logs", S("log_1")>> >>)),
      WithEvidence(Dict(<< <<"description", Str(<<"see ", "item_list", " attached">>)>> >>)),
      WithEvidence(Dict(<< <<"agent_id", S("wa_1234")>>, <<"verification_method", S("manual")>> >>)),
      WithEvidence(Dict(<< <<"scan_logs", S("log_1")>>, <<"agent_id", S("wa_1234")>>,
                           <<"verification_method", S("manual")>> >>)),
      Sealed(Without(WithInventory(ScannedInventory(Pct(95))), "evidence")) }

(* What the node may hold under the address a verifier asks for *)
StoredSamples ==
    StructureSamples \cup ContentSamples \cup EvidenceSamples \cup
    { GoodPackage,
      PoorPackage,
      BadItemPackage,
      Put(GoodPackage, "inventory_data", Put(create_sample_inventory_data, "total_items_scanned", Num(99))),
      Put(GoodPackage, "package_hash", S("tampered")),
      Without(GoodPackage, "package_hash"),
      Dict(<< <<"inventory_data", Num(7)>> >>),
      Dict(<<>>),
      List(<<S("submission_id")>>) }

VerifierNodeResponses ==
    {[asked |-> TRUE, raised |-> TRUE, value |-> None]}
    \cup {[asked |-> TRUE, raised |-> FALSE, value |-> v] : v \in StoredSamples}

VerIdle ==
    /\ verifier = [agent_id |-> "", specialization |-> "general",
                   private_key |-> PrivateKey("none"), simulation_mode |-> TRUE,
                   ipfs_client |-> [client |-> FALSE, mock_mode |-> TRUE],
                   evaluation_config |-> base_config]
    /\ vstate = VerifierInitialState([agent_id |-> ""], Str(<<>>))
    /\ vpc = "idle"
    /\ vresponse = [asked |-> FALSE, raised |-> FALSE, value |-> None]
    /\ vsign = ""

(* VerifierAgent(private_key, agent_id, specialization) is constructed and *)
(* evaluate_submission(submission_id) builds the initial state.            *)
VerifierStart ==
    /\ vpc = "idle"
    /\ \E key_kind \in KeyKinds, specialization \in Specializations,
          ipfs_available \in BOOLEAN, connect_ok \in BOOLEAN, submission_id \in SubmissionIds :
          /\ verifier' = VerifierAgent_init(key_kind, "va_001", specialization, ipfs_available, connect_ok)
          /\ vstate' = VerifierInitialState(verifier', submission_id)
    /\ vpc' = "initialize"
    /\ UNCHANGED <<vresponse, vsign, pkgvars, demovars, fleetvars>>

VerifierInitialize ==
    /\ vpc = "initialize"
    /\ vstate' = initialize_evaluation(vstate)
    /\ vpc' = "fetch_data"
    /\ UNCHANGED <<verifier, vresponse, vsign, pkgvars, demovars, fleetvars>>

VerifierFetch ==
    /\ vpc = "fetch_data"
    /\ \E response \in VerifierNodeResponses, mock_package \in generate_mock_poa_package(vstate.submission_id) :
          /\ vresponse' = IF verifier.ipfs_client.mock_mode THEN vresponse ELSE response
          /\ vstate' = fetch_submission_data(verifier, vstate, response, mock_package)
    /\ vpc' = "eval_structure"
    /\ UNCHANGED <<verifier, vsign, pkgvars, demovars, fleetvars>>

VerifierStructure ==
    /\ vpc = "eval_structure"
    /\ IF evaluate_structure_raises(vstate)
       THEN /\ vstate' = VerifierFailedState(verifier, vstate.submission_id, "TypeError")
            /\ vpc' = "returned"
       ELSE /\ vstate' = evaluate_structure(vstate)
            /\ vpc' = "eval_content"
    /\ UNCHANGED <<verifier, vresponse, vsign, pkgvars, demovars, fleetvars>>

VerifierContent ==
    /\ vpc = "eval_content"
    /\ IF evaluate_content_quality_raises(vstate)
       THEN /\ vstate' = VerifierFailedState(verifier, vstate.submission_id, "AttributeError")
            /\ vpc' = "returned"
       ELSE /\ vstate' = evaluate_content_quality(vstate)
            /\ vpc' = "eval_evidence"
    /\ UNCHANGED <<verifier, vresponse, vsign, pkgvars, demovars, fleetvars>>

VerifierEvidence ==
    /\ vpc = "eval_evidence"
    /\ IF evaluate_evidence_quality_raises(vstate)
       THEN /\ vstate' = VerifierFailedState(verifier, vstate.submission_id, "TypeError")
            /\ vpc' = "returned"
       ELSE /\ vstate' = evaluate_evidence_quality(vstate)
            /\ vpc' = "final_eval"
    /\ UNCHANGED <<verifier, vresponse, vsign, pkgvars, demovars, fleetvars>>

VerifierFinal ==
    /\ vpc = "final_eval"
    /\ vstate' = calculate_final_evaluation(verifier, vstate)
    /\ vpc' = "submit_attestation"
    /\ UNCHANGED <<verifier, vresponse, vsign, pkgvars, demovars, fleetvars>>

VerifierAttest ==
    /\ vpc = "submit_attestation"
    /\ \E sign_outcome \in SignOutcomes :
          /\ vstate' = create_and_submit_attestation(verifier, vstate, sign_outcome)
          /\ vsign' = IF verifier.simulation_mode THEN vsign ELSE sign_outcome
    /\ vpc' = "returned"
    /\ UNCHANGED <<verifier, vresponse, pkgvars, demovars, fleetvars>>

----------------------------------------------------------------------------
(* full_dvn_demo.py: run_full_dvn_demo, Phases 2 and 3 of one scenario     *)

CONSENSUS_THRESHOLD_PERCENT == 66

MIN_VERIFIER_AGENTS == 3

(* The most verifier agents a scenario runs in the model *)
MaxVerifiers == 4

(* What evaluate_submission can return, as far as the demo reads it: a     *)
(* completed evaluation that approves or rejects, a workflow that raised   *)
(* (the initial state, marked failed), and an attestation step that failed *)
(* after the decision was taken.                                           *)
EvalResults ==
    { [status |-> "completed", attestation_decision |-> TRUE],
      [status |-> "completed", attestation_decision |-> FALSE],
      [status |-> "failed", attestation_decision |-> FALSE],
      [status |-> "failed", attestation_decision |-> TRUE] }

(* The body of the verifier loop: the counting of approvals.  The mutant   *)
(* loses the count when an evaluation failed.                              *)
CountAttestation_reset(count, eval_result) ==
    IF eval_result.status = "completed"
    THEN IF eval_result.attestation_decision THEN count + 1 ELSE count
    ELSE 0

(* The counting of approvals without the test of the status *)
CountAttestation_any(count, eval_result) ==
    IF eval_result.attestation_decision THEN count + 1 ELSE count

CountAttestation(count, eval_result) ==
    IF eval_result.status = "completed"
    THEN IF eval_result.attestation_decision THEN count + 1 ELSE count
    ELSE count

(* a / b >= c / d for the true divisions of the consensus rule (b, d > 0) *)
RatioAtLeast(a, b, c, d) == a * d >= c * b

(* The verdict of Phase 3.  The mutant uses the 0.67 of run_quick_demo. *)
ConsensusVerdict_67(approval_count, successful_evaluations) ==
    IF successful_evaluations = 0
    THEN "FAILED - No successful evaluations"
    ELSE IF RatioAtLeast(approval_count, successful_evaluations, 67, 100)
         THEN "VERIFIED"
         ELSE "REJECTED"

ConsensusVerdict(approval_count, successful_evaluations) ==
    IF successful_evaluations = 0
    THEN "FAILED - No successful evaluations"
    ELSE IF RatioAtLeast(approval_count, successful_evaluations, CONSENSUS_THRESHOLD_PERCENT, 100)
         THEN "VERIFIED"
         ELSE "REJECTED"

(* run_quick_demo: the decisions it collects from the completed results,   *)
(* and its verdict ("" when it collected none and prints no verdict).      *)
QuickDecisions(results) ==
    LET completed == SelectSeq(results, LAMBDA r : r.status = "completed")
    IN  [i \in 1..Len(completed) |-> completed[i].attestation_decision]

QuickDemoVerdict(decisions) ==
    IF Len(decisions) > 0
    THEN IF RatioAtLeast(Len(SelectSeq(decisions, LAMBDA d : d)), Len(decisions), 67, 100)
         THEN "VERIFIED"
         ELSE "REJECTED"
    ELSE ""

(* The divisors of the divisions Phase 3 evaluates: approval_rate of the   *)
(* verdict, and the rate of the summary line.  The mutant prints the rate  *)
(* without the guard.                                                      *)
VerdictDivisors(successful_evaluations) ==
    IF successful_evaluations = 0 THEN <<>> ELSE <<successful_evaluations>>

SummaryDivisors_unguarded(successful_evaluations) == <<successful_evaluations>>

SummaryDivisors(successful_evaluations) ==
    IF successful_evaluations > 0 THEN <<successful_evaluations>> ELSE <<>>

(* Phase 3.  approval_rate is the rate the summary prints, as the pair     *)
(* <<approvals * 100, successful>>, or <<>> for "N/A"; zero_division tells *)
(* whether a division by zero was evaluated.                               *)
ConsensusAnalysis(results, approvals) ==
    LET total_verifiers == Len(results)
        successful_evaluations == Len(SelectSeq(results, LAMBDA r : r.status = "completed"))
        approval_count == approvals
        rejection_count == successful_evaluations - approval_count
        divisors == VerdictDivisors(successful_evaluations) \o SummaryDivisors(successful_evaluations)
    IN  [total_verifiers |-> total_verifiers,
         successful_evaluations |-> successful_evaluations,
         approval_count |-> approval_count,
         rejection_count |-> rejection_count,
         consensus_result |-> ConsensusVerdict(approval_count, successful_evaluations),
         approval_rate |-> IF SummaryDivisors(successful_evaluations) # <<>>
                           THEN <<approval_count * 100, successful_evaluations>>
                           ELSE <<>>,
         zero_division |-> \E i \in 1..Len(divisors) : divisors[i] = 0]

NoConsensus ==
    [total_verifiers |-> 0, successful_evaluations |-> 0, approval_count |-> 0,
     rejection_count |-> 0, consensus_result |-> "", approval_rate |-> <<>>,
     zero_division |-> FALSE]

DemoIdle ==
    /\ verifier_results = <<>>
    /\ attestation_count = 0
    /\ dpc = "idle"
    /\ consensus = NoConsensus

DemoInit ==
    /\ verifier_results = <<>>
    /\ attestation_count = 0
    /\ dpc = "evaluating"
    /\ consensus = NoConsensus

(* One pass of the verifier loop: an agent evaluates, its result is        *)
(* appended and its approval counted.                                      *)
DemoEvaluate ==
    /\ dpc = "evaluating"
    /\ Len(verifier_results) < MaxVerifiers
    /\ \E eval_result \in EvalResults :
          /\ verifier_results' = Append(verifier_results, eval_result)
          /\ attestation_count' = CountAttestation(attestation_count, eval_result)
    /\ UNCHANGED <<dpc, consensus, pkgvars, vervars, fleetvars>>

(* Phase 3, once the agents of the scenario have all evaluated *)
DemoConsensus ==
    /\ dpc = "evaluating"
    /\ consensus' = ConsensusAnalysis(verifier_results, attestation_count)
    /\ dpc' = "done"
    /\ UNCHANGED <<verifier_results, attestation_count, pkgvars, vervars, fleetvars>>

----------------------------------------------------------------------------
(* full_dvn_demo.py: run_full_dvn_demo, one scenario from the Worker to    *)
(* the consensus, with the workflows of the verifier agents interleaved    *)
(* node by node.                                                           *)

(* demo_config["verifier_agents"] of the model: one electronics and one    *)
(* general agent, named as the loop names them.                            *)
FleetAgents ==
    << [agent_id |-> "va_electronics_001", specialization |-> "electronics"],
       [agent_id |-> "va_general_001", specialization |-> "general"] >>

FleetIds == 1..Len(FleetAgents)

(* f"{scenario['store_id']}_{scenario['action']}_{worker_result['submission_id']}" *)
FleetSubmissionId(worker_result) ==
    Str(<<worker_result.store_id, "_", worker_result.action_type, "_",
          ToString(worker_result.submission_id.n)>>)

(* What the node may hold under the address the agents ask for (an address *)
(* fetch_submission_data makes up from the submission id): nothing, or an  *)
(* object somebody stored.                                                 *)
FleetNodeContents == {None, GoodPackage, BadItemPackage}

(* What one agent's run draws: the answer of the node to its get_json and  *)
(* the package _generate_mock_poa_package would return (one item).         *)
FleetDraws(submission_id) ==
    { [response |-> r, mock_package |-> m] :
        r \in {[asked |-> TRUE, raised |-> TRUE, value |-> None]}
              \cup (IF fnode # None THEN {[asked |-> TRUE, raised |-> FALSE, value |-> fnode]} ELSE {}),
        m \in {p \in generate_mock_poa_package(submission_id) :
                   Len(Get(Get(p, "inventory_data"), "items").l) = 1} }

(* One node of the compiled workflow, run on a state: the state it returns *)
(* and the node its edge leads to; a node that raises ends the run in the  *)
(* except branch of evaluate_submission.  private_key="simulation" keeps   *)
(* the agents of the demo off the signer.                                  *)
StageResult(self, state, node, draw) ==
    LET failed(message) ==
            [state |-> VerifierFailedState(self, state.submission_id, message), pc |-> "returned"]
    IN  CASE node = "initialize" ->
                [state |-> initialize_evaluation(state), pc |-> "fetch_data"]
          [] node = "fetch_data" ->
                [state |-> fetch_submission_data(self, state, draw.response, draw.mock_package),
                 pc |-> "eval_structure"]
          [] node = "eval_structure" ->
                IF evaluate_structure_raises(state) THEN failed("TypeError")
                ELSE [state |-> evaluate_structure(state), pc |-> "eval_content"]
          [] node = "eval_content" ->
                IF evaluate_content_quality_raises(state) THEN failed("AttributeError")
                ELSE [state |-> evaluate_content_quality(state), pc |-> "eval_evidence"]
          [] node = "eval_evidence" ->
                IF evaluate_evidence_quality_raises(state) THEN failed("TypeError")
                ELSE [state |-> evaluate_evidence_quality(state), pc |-> "final_eval"]
          [] node = "final_eval" ->
                [state |-> calculate_final_evaluation(self, state), pc |-> "submit_attestation"]
          [] node = "submit_attestation" ->
                [state |-> create_and_submit_attestation(self, state, "ok"), pc |-> "returned"]

(* compiled_workflow.invoke(initial_state) inside the try of               *)
(* evaluate_submission: the nodes run one after the other.                 *)
RECURSIVE RunWorkflow(_, _, _, _)
RunWorkflow(self, state, node, draw) ==
    IF node = "returned" THEN state
    ELSE LET r == StageResult(self, state, node, draw)
         IN  RunWorkflow(self, r.state, r.pc, draw)

FleetIdle ==
    /\ fleet = [i \in FleetIds |-> VerifierAgent_init("simulation", "", "general", FALSE, FALSE)]
    /\ fstate = [i \in FleetIds |-> VerifierInitialState([agent_id |-> ""], Str(<<>>))]
    /\ fpc = [i \in FleetIds |-> "idle"]
    /\ fdraw = [i \in FleetIds |-> [response |-> [asked |-> FALSE, raised |-> FALSE, value |-> None],
                                    mock_package |-> Dict(<<>>)]]
    /\ fnode = None

FleetInit ==
    /\ PkgInit
    /\ VerIdle
    /\ DemoInit
    /\ fleet = [i \in FleetIds |-> VerifierAgent_init("simulation", "", "general", FALSE, FALSE)]
    /\ fstate = [i \in FleetIds |-> VerifierInitialState([agent_id |-> ""], Str(<<>>))]
    /\ fpc = [i \in FleetIds |-> "idle"]
    /\ fdraw = [i \in FleetIds |-> [response |-> [asked |-> FALSE, raised |-> FALSE, value |-> None],
                                    mock_package |-> Dict(<<>>)]]
    /\ fnode \in FleetNodeContents

(* Phase 1 of the scenario: WorkerAgent(private_key="simulation") and      *)
(* execute_verification of the first store scenario.                       *)
FleetWorker ==
    /\ \/ ExecuteVerification
       \/ WorkerInitialize
       \/ WorkerScan
       \/ WorkerCreatePoa
       \/ WorkerUpload
       \/ WorkerSubmit
    /\ worker'.simulation_mode
    /\ wstate'.section = "electronics"
    /\ wstate'.action_type = "KiranaAI_StockReport"
    /\ \A i \in 1..Len(wstate'.items_scanned) :
          Get(wstate'.items_scanned[i], "confidence") = Num(Pct(95))

(* The state the workflow of agent i hands to its next node.  The mutant   *)
(* has every workflow run on the state of the first agent.                 *)
FleetStageInput_shared(i) == fstate[1]

FleetStageInput(i) == fstate[i]

(* VerifierAgent(private_key="simulation", agent_id, specialization) and   *)
(* the initial state of evaluate_submission(submission_id), once the       *)
(* Worker has submitted.                                                   *)
FleetStart(i) ==
    /\ pc = "returned"
    /\ wstate.status = "submitted"
    /\ fpc[i] = "idle"
    /\ \E ipfs_available \in BOOLEAN, connect_ok \in BOOLEAN, draw \in FleetDraws(FleetSubmissionId(wstate)) :
          LET self == VerifierAgent_init("simulation", FleetAgents[i].agent_id,
                                         FleetAgents[i].specialization, ipfs_available, connect_ok)
          IN  /\ fleet' = [fleet EXCEPT ![i] = self]
              /\ fstate' = [fstate EXCEPT ![i] = VerifierInitialState(self, FleetSubmissionId(wstate))]
              /\ fdraw' = [fdraw EXCEPT ![i] = draw]
    /\ fpc' = [fpc EXCEPT ![i] = "initialize"]
    /\ UNCHANGED <<fnode, pkgvars, vervars, demovars>>

(* Agent i's workflow runs its next node *)
FleetStage(i) ==
    /\ fpc[i] \notin {"idle", "returned", "collected"}
    /\ LET r == StageResult(fleet[i], FleetStageInput(i), fpc[i], fdraw[i])
       IN  /\ fstate' = [fstate EXCEPT ![i] = r.state]
           /\ fpc' = [fpc EXCEPT ![i] = r.pc]
    /\ UNCHANGED <<fleet, fdraw, fnode, pkgvars, vervars, demovars>>

(* The body of the verifier loop after evaluate_submission returned: the   *)
(* result is appended and its approval counted, agent after agent.         *)
FleetCollect(i) ==
    /\ dpc = "evaluating"
    /\ i = Len(verifier_results) + 1
    /\ fpc[i] = "returned"
    /\ verifier_results' = Append(verifier_results,
                                  [status |-> fstate[i].status,
                                   attestation_decision |-> fstate[i].attestation_decision])
    /\ attestation_count' = CountAttestation(attestation_count, fstate[i])
    /\ fpc' = [fpc EXCEPT ![i] = "collected"]
    /\ UNCHANGED <<dpc, consensus, fleet, fstate, fdraw, fnode, pkgvars, vervars>>

(* Phase 3, once the loop has collected every agent's result *)
FleetConsensus ==
    /\ Len(verifier_results) = Len(FleetAgents)
    /\ DemoConsensus

----------------------------------------------------------------------------
(* Specifications *)

Init == PkgInit /\ VerIdle /\ DemoIdle /\ FleetIdle

Next ==
    \/ BuildPackage
    \/ UploadPackage
    \/ TamperStored
    \/ ReorderStored
    \/ StripStored
    \/ RetrievePackage
    \/ ExecuteVerification
    \/ WorkerInitialize
    \/ WorkerScan
    \/ WorkerCreatePoa
    \/ WorkerUpload
    \/ WorkerSubmit

Spec == Init /\ [][Next]_vars

(* execute_verification is one call on one thread: the node of the         *)
(* workflow it stands at runs.  Each node is enabled exactly when the call *)
(* stands at it and its steps are the steps that leave it, so the fairness *)
(* of the nodes is stated on the position alone.                           *)
WorkerNodeReturns ==
    \/ pc = "initialize" /\ pc' = "scan"
    \/ pc = "scan" /\ pc' = "create_poa"
    \/ pc = "create_poa" /\ pc' = "upload"
    \/ pc = "upload" /\ pc' = "submit"
    \/ pc = "submit" /\ pc' = "returned"

SpecWorkerFair == Spec /\ WF_pc(WorkerNodeReturns)

InitVerifier == PkgIdle /\ VerIdle /\ DemoIdle /\ FleetIdle

NextVerifier ==
    \/ VerifierStart
    \/ VerifierInitialize
    \/ VerifierFetch
    \/ VerifierStructure
    \/ VerifierContent
    \/ VerifierEvidence
    \/ VerifierFinal
    \/ VerifierAttest

SpecVerifier == InitVerifier /\ [][NextVerifier]_vars

(* evaluate_submission is one call on one thread: while it stands at a     *)
(* node of the workflow, that node runs and the call moves on.  The        *)
(* attestation node is enabled exactly when the call stands at it, and its *)
(* steps are the steps of the verifier that leave it, so the fairness of   *)
(* that node is stated on the position alone.                              *)
AttestationReturns ==
    /\ vpc = "submit_attestation"
    /\ vpc' = "returned"

SpecVerifierFair ==
    /\ SpecVerifier
    /\ WF_vars(VerifierInitialize)
    /\ WF_vars(VerifierFetch)
    /\ WF_vars(VerifierStructure)
    /\ WF_vars(VerifierContent)
    /\ WF_vars(VerifierEvidence)
    /\ WF_vars(VerifierFinal)
    /\ WF_vpc(AttestationReturns)

InitConsensus == PkgIdle /\ VerIdle /\ DemoInit /\ FleetIdle

NextConsensus ==
    \/ DemoEvaluate
    \/ DemoConsensus

SpecConsensus == InitConsensus /\ [][NextConsensus]_vars

InitFleet == FleetInit

NextFleet ==
    \/ FleetWorker
    \/ \E i \in FleetIds : FleetStart(i)
    \/ \E i \in FleetIds : FleetStage(i)
    \/ \E i \in FleetIds : FleetCollect(i)
    \/ FleetConsensus

SpecFleet == InitFleet /\ [][NextFleet]_vars

----------------------------------------------------------------------------
(* Properties of the package model *)

(* The packages that exist in a state: the one a direct caller built and   *)
(* the one the Worker workflow built.                                      *)
BuiltPackages == {p \in {poa_package, wstate.poa_package} : p # Dict(<<>>)}

(* The packages create_poa_package has just returned *)
ReturnedPackages == IF pc \in {"built", "upload"} THEN BuiltPackages ELSE {}

(* The retrieval ran against a connected node that answered *)
RetrievalAnswered ==
    /\ pc = "retrieved"
    /\ ~ipfs.mock_mode
    /\ ipfs.client
    /\ ~node_response.raised

(* C5: every package create_poa_package returns passes the hash check of   *)
(* retrieve_poa_package (the hash recomputed over all fields but           *)
(* package_hash equals package_hash, and retrieval returns the package),   *)
(* and the package with the value of any one field changed fails it.       *)
C5_BuildThenVerify ==
    /\ \A p \in ReturnedPackages :
          /\ calculated_hash_of(p) = Get(p, "package_hash")
          /\ \A q \in ValueTampers(p) : calculated_hash_of(q) # Get(q, "package_hash")
    /\ (RetrievalAnswered /\ tamper = "none") => retrieved = poa_package
    /\ (RetrievalAnswered /\ tamper = "value") => retrieved = None

C5_Witness ==
    /\ RetrievalAnswered
    /\ tamper = "value"
    /\ node_response.value # poa_package
    /\ calculated_hash_of(poa_package) = Get(poa_package, "package_hash")
    /\ retrieved = None

(* C6: the package hash does not depend on the insertion order of the keys *)
(* at any nesting level, neither when the package is built nor when the    *)
(* stored object is checked, and it covers every field but package_hash.   *)
C6_KeyOrderIndependent ==
    /\ \A p \in ReturnedPackages :
          /\ \A q \in KeyReorders(p) : calculated_hash_of(q) = calculated_hash_of(p)
          /\ Get(create_poa_package(Get(p, "submission_id"), Get(p, "studio_id"),
                                    Get(p, "worker_agent_id"), Get(p, "action_type"),
                                    DeepReverse(Get(p, "inventory_data")),
                                    DeepReverse(Get(p, "evidence"))), "package_hash")
               = Get(p, "package_hash")
          /\ Get(p, "package_hash") = sha256_hexdigest(json_dumps(Without(p, "package_hash"), TRUE))
          /\ ~Has(Without(p, "package_hash"), "package_hash")
    /\ (RetrievalAnswered /\ tamper = "reorder") =>
          /\ retrieved = node_response.value
          /\ Get(retrieved, "package_hash") = Get(poa_package, "package_hash")

C6_Witness ==
    /\ RetrievalAnswered
    /\ tamper = "reorder"
    /\ node_response.value # poa_package
    /\ retrieved = node_response.value

(* C9: a build with an action type outside SUPPORTED_ACTION_TYPES fails    *)
(* with an invalid-action-type error and yields no package and no hash,    *)
(* through the Worker workflow and through create_poa_package alike.       *)
C9_InvalidActionTypeRejected ==
    (call.fn # "" /\ ~is_valid_action_type(call.action_type)) =>
        /\ raised = "ValueError"
        /\ BuiltPackages = {}

----------------------------------------------------------------------------
(* Properties of the verifier *)

(* The node answered this verifier with a package whose recomputed hash    *)
(* differs from its package_hash.                                          *)
HashMismatch(response) ==
    /\ response.asked
    /\ ~response.raised
    /\ IsDict(response.value)
    /\ Has(response.value, "package_hash")
    /\ calculated_hash_of(response.value) # Get(response.value, "package_hash")

(* C7: the three scoring weights of every verifier's evaluation config     *)
(* sum to exactly 1.0 (ten tenths), whatever its specialization.           *)
C7_WeightsSumToOne ==
    vpc # "idle" =>
        verifier.evaluation_config.structure_weight
        + verifier.evaluation_config.content_weight
        + verifier.evaluation_config.evidence_weight = 10

(* C8: the overall_score of the aggregation stage lies in [0, 1] for every *)
(* specialization and all sub-scores.                                      *)
C8_OverallScoreInUnitInterval ==
    vstate.overall_score >= 0 /\ vstate.overall_score <= SCALE

(* C10: when the recomputed hash of a retrieved package differs from its   *)
(* package_hash, retrieve_poa_package returns nothing and the verifier     *)
(* that asked does not end with a completed evaluation.                    *)
C10_HashMismatchIsHardFailure ==
    HashMismatch(vresponse) =>
        /\ retrieve_poa_package(verifier.ipfs_client, vresponse) = None
        /\ vstate.status # "completed"

----------------------------------------------------------------------------
(* Properties of the consensus rule *)

(* The counts read off the collected results themselves *)
Successful(results) == Cardinality({i \in 1..Len(results) : results[i].status = "completed"})

Approvals(results) ==
    Cardinality({i \in 1..Len(results) :
                    results[i].status = "completed" /\ results[i].attestation_decision})

(* The whole of Phases 2 and 3 on a list of results *)
RECURSIVE CountAll(_, _)
CountAll(count, results) ==
    IF results = <<>> THEN count
    ELSE CountAll(CountAttestation(count, Head(results)), Tail(results))

RunConsensus(results) == ConsensusAnalysis(results, CountAll(0, results))

Permuted(results, perm) == [i \in 1..Len(results) |-> results[perm[i]]]

(* C1: the verdict is VERIFIED iff the successful evaluations reach the    *)
(* quorum min_verifier_agents and approvals/successful*100 reaches the     *)
(* threshold.                                                              *)
C1_VerifiedIffQuorumAndThreshold ==
    dpc = "done" =>
        (consensus.consensus_result = "VERIFIED"
            <=> /\ Successful(verifier_results) >= MIN_VERIFIER_AGENTS
                /\ Approvals(verifier_results) * 100 >= 66 * Successful(verifier_results))

(* C2: for n >= 1 successful evaluations the verdict is VERIFIED exactly   *)
(* when approvals*100 >= 66*n; with n = 3, two approvals verify and one    *)
(* does not; one more approval never turns VERIFIED into something else.   *)
C2_ThresholdBoundary ==
    (dpc = "done" /\ Successful(verifier_results) >= 1) =>
        LET n == Successful(verifier_results)
            a == Approvals(verifier_results)
        IN  /\ consensus.consensus_result = "VERIFIED" <=> a * 100 >= 66 * n
            /\ (n = 3 /\ a = 2) => consensus.consensus_result = "VERIFIED"
            /\ (n = 3 /\ a = 1) => consensus.consensus_result = "REJECTED"
            /\ \A i \in 1..Len(verifier_results) :
                  (/\ verifier_results[i].status = "completed"
                   /\ ~verifier_results[i].attestation_decision
                   /\ consensus.consensus_result = "VERIFIED")
                  => RunConsensus([verifier_results EXCEPT ![i].attestation_decision = TRUE]).consensus_result
                        = "VERIFIED"

C2_Witness ==
    /\ dpc = "done"
    /\ Successful(verifier_results) = 3
    /\ Approvals(verifier_results) = 2
    /\ consensus.consensus_result = "VERIFIED"

(* C3: with no result, or only failed results, the verdict is the defined  *)
(* non-verified one and no division by successful_evaluations is           *)
(* evaluated, for the verdict or for the printed rate.                     *)
C3_DegenerateIsDefined ==
    (dpc = "done" /\ Successful(verifier_results) = 0) =>
        /\ consensus.consensus_result = "FAILED - No successful evaluations"
        /\ ~consensus.zero_division
        /\ consensus.approval_rate = <<>>
        /\ consensus = RunConsensus(verifier_results)

C3_Witness ==
    /\ dpc = "done"
    /\ Len(verifier_results) >= 2
    /\ \A i \in 1..Len(verifier_results) : verifier_results[i].status = "failed"
    /\ consensus.consensus_result = "FAILED - No successful evaluations"

(* C4: every permutation of the collected results gives the same counts    *)
(* and the same verdict.                                                   *)
C4_PermutationInvariant ==
    dpc = "done" =>
        \A perm \in Permutations(1..Len(verifier_results)) :
            RunConsensus(Permuted(verifier_results, perm)) = consensus

C4_Witness ==
    /\ dpc = "done"
    /\ Len(verifier_results) >= 3
    /\ verifier_results[1].status = "failed"
    /\ verifier_results[2].status = "completed"
    /\ verifier_results[2].attestation_decision
    /\ consensus.approval_count >= 1

----------------------------------------------------------------------------
(* Properties of a scenario with several verifier agents *)

(* Agent i has fetched its package and is evaluating it, or has finished   *)
(* a run that no node aborted.                                             *)
HoldsPackage(i) ==
    /\ fpc[i] # "idle"
    /\ fstate[i].current_step \notin {"initializing", "fetching_submission"}

(* The run of agent i ended in the except branch of evaluate_submission *)
RunAborted(state) == state.status = "failed" /\ state.current_step = "initializing"

(* C11: any two verifiers evaluating the submission of one run evaluate    *)
(* packages of identical content, and that content is the package the      *)
(* Worker built and hashed.                                                *)
C11_VerifiersConsumeWorkerPackage ==
    \A i \in FleetIds, j \in FleetIds :
        (HoldsPackage(i) /\ HoldsPackage(j)) =>
            /\ fstate[i].poa_package = fstate[j].poa_package
            /\ fstate[i].poa_package = wstate.poa_package

(* C12: once create_poa has assigned the hash, upload and submit leave     *)
(* every field of the Worker's poa_package alone and package_hash stays    *)
(* equal to poa_package['package_hash']; no verifier node after fetch_data *)
(* changes the poa_package it evaluates (a run a node aborts returns a     *)
(* fresh result without it).                                               *)
C12_PackageNeverMutated ==
    [][ /\ (pc \in {"upload", "submit"} /\ pc' # pc) =>
              /\ wstate'.poa_package = wstate.poa_package
              /\ wstate'.package_hash = Get(wstate'.poa_package, "package_hash")
              /\ wstate'.package_hash = wstate.package_hash
        /\ \A i \in FleetIds :
              (fpc[i] \in {"eval_structure", "eval_content", "eval_evidence", "final_eval",
                           "submit_attestation", "returned"}
               /\ ~RunAborted(fstate[i]))
              => \/ fstate'[i].poa_package = fstate[i].poa_package
                 \/ RunAborted(fstate'[i]) ]_vars

C12_Witness ==
    /\ pc = "returned"
    /\ wstate.current_step = "submitted"
    /\ wstate.package_hash = Get(wstate.poa_package, "package_hash")
    /\ wstate.ipfs_hash # Str(<<>>)
    /\ \E i \in FleetIds :
          /\ fpc[i] = "returned"
          /\ fstate[i].status = "completed"
          /\ fstate[i].poa_package = fdraw[i].mock_package

----------------------------------------------------------------------------
(* Properties of the attestation step *)

(* A key the constructor or the account library turns down *)
NoValidSigningMaterial(private_key) ==
    \/ ~private_key.given
    \/ private_key.text \in {"your_private_key_here", "simulation"}
    \/ private_key.length < 64
    \/ ~private_key.accepted

(* '0x' followed by k hexadecimal characters *)
IsHexString(str, k) ==
    /\ Len(str.s) = k + 1
    /\ str.s[1] = "0x"
    /\ \A i \in 2..(k + 1) : \E d \in 1..Len(HexDigits) : str.s[i] = HexDigits[d]

(* The attestation step has run *)
AttestationStepRan == vpc = "returned" /\ vstate.evaluation_completed

(* C14: when signing fails in a verifier that is not in simulation mode,   *)
(* the attestation step returns status 'failed' and current_step 'failed', *)
(* error_message carries the error, and neither a signature nor a          *)
(* transaction hash is recorded.                                           *)
C14_SigningFailureIsFailed ==
    vsign = "raise" =>
        /\ AttestationStepRan
        /\ vstate.status = "failed"
        /\ vstate.current_step = "failed"
        /\ vstate.error_message = "signing error"
        /\ vstate.attestation_signature = Str(<<>>)
        /\ vstate.tx_hash = Str(<<>>)

C14_Witness ==
    /\ vsign = "raise"
    /\ ~verifier.simulation_mode
    /\ vstate.status = "failed"
    /\ vstate.attestation_decision

C18_SimulationModeIsUnsigned ==
    vpc # "idle" =>
        /\ NoValidSigningMaterial(verifier.private_key) => verifier.simulation_mode
        /\ (verifier.simulation_mode /\ AttestationStepRan) =>
              /\ vsign = ""
              /\ vstate.status = "completed"
              /\ vstate.current_step = "completed"
              /\ IsHexString(vstate.attestation_signature, 130)

C18_Witness ==
    /\ AttestationStepRan
    /\ verifier.private_key.length = 64
    /\ ~verifier.private_key.accepted
    /\ verifier.simulation_mode
    /\ vstate.status = "completed"
    /\ IsHexString(vstate.attestation_signature, 130)

----------------------------------------------------------------------------
(* Properties of the Worker's upload *)

(* The Worker's upload has run and the node did not take the package: the  *)
(* client is not in mock mode and nothing is stored.                       *)
WorkerUploadFailed ==
    /\ call.fn = "execute_verification"
    /\ pc = "submit"
    /\ ~ipfs.mock_mode
    /\ node_content = None

(* C16: whenever storing the package fails, the Worker workflow uses the   *)
(* locally computed package_hash as the address (ipfs_hash = package_hash),*)
(* records the fallback, and goes on to the submit step.                   *)
C16_UploadFailureFallsBack ==
    WorkerUploadFailed =>
        /\ wstate.ipfs_hash = wstate.package_hash
        /\ wstate.current_step = "ipfs_failed"
        /\ wstate.error_message = "IPFS upload failed, using local hash"

----------------------------------------------------------------------------
(* Properties of a scenario with a failing verifier *)

(* A node of agent i's workflow raises on the state it is handed *)
NodeRaises(i) ==
    \/ fpc[i] = "eval_structure" /\ evaluate_structure_raises(fstate[i])
    \/ fpc[i] = "eval_content" /\ evaluate_content_quality_raises(fstate[i])
    \/ fpc[i] = "eval_evidence" /\ evaluate_evidence_quality_raises(fstate[i])

(* C17: when a node of a verifier's workflow raises, evaluate_submission   *)
(* returns a result with status 'failed' and a non-empty error_message     *)
(* instead of raising, and the consensus over all results is still         *)
(* computed: the failed verifier counts in total_verifiers, not in the     *)
(* successful evaluations or the approvals.                                *)
C17_BadVerifierDoesNotBlockConsensus ==
    /\ [][\A i \in FleetIds :
            (NodeRaises(i) /\ fpc'[i] # fpc[i]) =>
                /\ fpc'[i] = "returned"
                /\ fstate'[i].status = "failed"
                /\ fstate'[i].error_message # ""]_vars
    /\ [](dpc = "done" =>
            LET failed == {i \in FleetIds : fstate[i].status = "failed"}
                approving == {i \in FleetIds : fstate[i].status = "completed"
                                               /\ fstate[i].attestation_decision}
            IN  /\ \A i \in FleetIds : fstate[i].status \in {"completed", "failed"}
                /\ \A i \in failed : fstate[i].error_message # ""
                /\ consensus.total_verifiers = Len(FleetAgents)
                /\ consensus.successful_evaluations = Len(FleetAgents) - Cardinality(failed)
                /\ consensus.approval_count = Cardinality(approving)
                /\ consensus.consensus_result
                     = ConsensusVerdict(Cardinality(approving), Len(FleetAgents) - Cardinality(failed)))

C17_Witness ==
    /\ dpc = "done"
    /\ fstate[1].status = "failed"
    /\ fstate[1].error_message = "AttributeError"
    /\ fstate[2].status = "completed"
    /\ consensus.total_verifiers = 2
    /\ consensus.successful_evaluations = 1
    /\ consensus.consensus_result \in {"VERIFIED", "REJECTED"}

----------------------------------------------------------------------------
(* Properties of the serialization *)

(* The value holds a NaN number or a container that holds itself *)
RECURSIVE Unrepresentable(_)
Unrepresentable(v) ==
    CASE v = NaN        -> TRUE
      [] v.tag = "cycle" -> TRUE
      [] v.tag = "dict"  -> \E i \in 1..Len(v.kv) : Unrepresentable(v.kv[i][2])
      [] v.tag = "list"  -> \E i \in 1..Len(v.l) : Unrepresentable(v.l[i])
      [] OTHER           -> FALSE

(* C19: building a package whose inventory_data or evidence holds a NaN    *)
(* number or a cyclic structure fails with an encoding error and yields no *)
(* package hash: no package create_poa_package returns holds such a value. *)
C19_UnrepresentableDataRejected ==
    \A p \in BuiltPackages : ~Unrepresentable(p)

----------------------------------------------------------------------------
(* Properties of the order of the verifier's stages *)

(* The nodes of the workflow in the order of its edges, then the return *)
StageOrder ==
    <<"initialize", "fetch_data", "eval_structure", "eval_content",
      "eval_evidence", "final_eval", "submit_attestation", "returned">>

(* The values of current_step in the order the stages write them *)
StepOrder ==
    <<"initializing", "fetching_submission", "evaluating_structure", "evaluating_content",
      "evaluating_evidence", "calculating_final_score", "creating_attestation">>

StagesOf(seq) == {seq[i] : i \in 1..Len(seq)}

PlaceIn(seq, x) == CHOOSE i \in 1..Len(seq) : seq[i] = x

(* current_step b is the one that follows a: the next of the chain, or one *)
(* of the two final values after creating_attestation                      *)
StepFollows(a, b) ==
    /\ a \in StagesOf(StepOrder)
    /\ IF a = "creating_attestation"
       THEN b \in {"completed", "failed"}
       ELSE b \in StagesOf(StepOrder) /\ PlaceIn(StepOrder, b) = PlaceIn(StepOrder, a) + 1

(* C20: every step of a verifier run executes the stage that follows the   *)
(* one executed before it in the fixed order, and moves current_step one   *)
(* place along fetching_submission, evaluating_structure,                  *)
(* evaluating_content, evaluating_evidence, calculating_final_score,       *)
(* creating_attestation, completed or failed: so every stage runs once.    *)
C20_StagesRunOnceInOrder ==
    [][ (vpc \in StagesOf(StageOrder) /\ vpc' # vpc) =>
            /\ vpc' \in StagesOf(StageOrder)
            /\ PlaceIn(StageOrder, vpc') = PlaceIn(StageOrder, vpc) + 1
            /\ StepFollows(vstate.current_step, vstate'.current_step) ]_vars

----------------------------------------------------------------------------
(* Properties of the fields the evaluation stages write *)

(* The node that writes each result field of the evaluation *)
FieldWriter ==
    [structure_valid |-> "eval_structure",
     content_quality_score |-> "eval_content",
     evidence_quality_score |-> "eval_evidence",
     overall_score |-> "final_eval",
     evaluation_confidence |-> "final_eval",
     attestation_decision |-> "final_eval"]

IsPrefix(a, b) == Len(a) <= Len(b) /\ SubSeq(b, 1, Len(a)) = a

(* A node of the workflow returned its state *)
StageReturned == vpc \in StagesOf(StageOrder) /\ vpc' # vpc /\ ~RunAborted(vstate')

(* C21: a stage that returns changes no result field but its own           *)
(* (structure_valid, content_quality_score, evidence_quality_score, then   *)
(* overall_score, evaluation_confidence and attestation_decision), so a    *)
(* field stays as written by its stage, and evaluation_notes after the     *)
(* stage begins with the notes before it.                                  *)
C21_StagesWriteOwnFieldOnly ==
    [][ StageReturned =>
            /\ \A f \in DOMAIN FieldWriter : vstate'[f] # vstate[f] => vpc = FieldWriter[f]
            /\ IsPrefix(vstate.evaluation_notes, vstate'.evaluation_notes) ]_vars

(* A completed evaluation that has written every result field and notes *)
C21_Witness ==
    /\ vpc = "returned"
    /\ vstate.status = "completed"
    /\ vstate.structure_valid
    /\ vstate.content_quality_score > 0
    /\ vstate.evidence_quality_score > 0
    /\ vstate.attestation_decision
    /\ Len(vstate.evaluation_notes) >= 2

----------------------------------------------------------------------------
(* Properties of the structure stage *)

(* The structure stage returned in the current run *)
StructureStageRan ==
    \/ vpc \in {"eval_content", "eval_evidence", "final_eval", "submit_attestation"}
    \/ vpc = "returned" /\ ~RunAborted(vstate)

(* The package under evaluation is a record whose inventory_data, when     *)
(* present, is a record                                                    *)
WellShaped(poa) == IsDict(poa) /\ IsDict(GetOr(poa, "inventory_data", Dict(<<>>)))

MissingTopLevel(poa) == {f \in StagesOf(REQUIRED_FIELDS) : ~Has(poa, f)}

MissingNested(poa) ==
    IF Has(poa, "inventory_data")
    THEN {f \in StagesOf(REQUIRED_INVENTORY_FIELDS) : ~Has(Get(poa, "inventory_data"), f)}
    ELSE {}

RECURSIVE Power(_, _)
Power(b, e) == IF e = 0 THEN 1 ELSE b * Power(b, e - 1)

(* (present / 8) * 0.9^nested >= 0.8, over the integers *)
StructureScoreAtLeast80(poa) ==
    (8 - Cardinality(MissingTopLevel(poa))) * Power(9, Cardinality(MissingNested(poa))) * 10
        >= 8 * 8 * Power(10, Cardinality(MissingNested(poa)))

Mentions(notes, word) ==
    \E i \in 1..Len(notes) : \E j \in 1..Len(notes[i]) : notes[i][j] = word

----------------------------------------------------------------------------
(* Properties of the content stage *)

(* The content stage returned in the current run *)
ContentStageRan ==
    \/ vpc \in {"eval_evidence", "final_eval", "submit_attestation"}
    \/ vpc = "returned" /\ ~RunAborted(vstate)

(* inventory_data.items of the package under evaluation, [] when absent *)
ItemsOf(state) == GetOr(ContentInventory(state), "items", List(<<>>))

(* More anomalies than 30% of the items *)
HighAnomalyRate(state) ==
    10 * PyLen(GetOr(ContentInventory(state), "anomalies", List(<<>>))) > 3 * PyLen(ItemsOf(state))

(* The reported scan confidence, 0.0 when absent, is below 0.7 *)
LowScanConfidence(state) ==
    10 * GetOr(ContentInventory(state), "scan_confidence", Num(0)).n < 7 * SCALE

----------------------------------------------------------------------------
(* Properties of the content penalties *)

(* inventory_data reports a scan_confidence and it is below 0.7 *)
ReportedLowScanConfidence(state) ==
    /\ Has(ContentInventory(state), "scan_confidence")
    /\ 10 * Get(ContentInventory(state), "scan_confidence").n < 7 * SCALE

HasNoteStarting(notes, piece) == \E i \in 1..Len(notes) : notes[i][1] = piece

(* The mean item score after the penalties that apply, each a product *)
Penalised(mean, by_anomalies, by_confidence) ==
    LET after_anomalies == IF by_anomalies THEN (mean * 8) \div 10 ELSE mean
    IN  IF by_confidence THEN (after_anomalies * 9) \div 10 ELSE after_anomalies

(* C24: after the content stage on a non-empty item list the score is the  *)
(* mean item score times 0.8 exactly when the anomalies exceed 30% of the  *)
(* items, times 0.9 exactly when the reported scan_confidence is below     *)
(* 0.7, with the note of each penalty applied; on an empty item list       *)
(* neither penalty note is recorded.                                       *)
C24_ContentPenalties ==
    ContentStageRan =>
        IF Truthy(ItemsOf(vstate))
        THEN /\ vstate.content_quality_score
                    = Penalised(SumItemScores(ItemsOf(vstate).l) \div Len(ItemsOf(vstate).l),
                                HighAnomalyRate(vstate), ReportedLowScanConfidence(vstate))
             /\ HasNoteStarting(vstate.evaluation_notes, "High anomaly rate detected")
                    <=> HighAnomalyRate(vstate)
             /\ HasNoteStarting(vstate.evaluation_notes, "Low scan confidence: ")
                    <=> ReportedLowScanConfidence(vstate)
        ELSE /\ ~HasNoteStarting(vstate.evaluation_notes, "High anomaly rate detected")
             /\ ~HasNoteStarting(vstate.evaluation_notes, "Low scan confidence: ")

----------------------------------------------------------------------------
(* Properties of the evidence stage *)

(* The evidence stage returned in the current run *)
EvidenceStageRan ==
    \/ vpc \in {"final_eval", "submit_attestation"}
    \/ vpc = "returned" /\ ~RunAborted(vstate)

(* The required evidence types that are a key of the evidence or occur in  *)
(* the text of one of its values                                           *)
TypesFound(evidence) ==
    {t \in StagesOf(REQUIRED_EVIDENCE_TYPES) :
        \/ Has(evidence, t)
        \/ \E i \in 1..Len(evidence.kv) : ReprContains(evidence.kv[i][2], t)}

OptionalFieldsPresent(evidence) == {f \in {"verification_method", "agent_id"} : Has(evidence, f)}

(* C25: after the evidence stage, evidence_quality_score is (required      *)
(* types found)/(required types) plus 0.1 per optional field present,      *)
(* capped at 1.0; evidence whose keys are exactly the required types       *)
(* scores 1.0; the score lies in [0,1].                                    *)
C25_EvidenceScore ==
    (EvidenceStageRan /\ IsDict(PackageEvidence(vstate))) =>
        LET evidence == PackageEvidence(vstate)
            required == Cardinality(StagesOf(REQUIRED_EVIDENCE_TYPES))
            tenths == Cardinality(OptionalFieldsPresent(evidence))
        IN  /\ vstate.evidence_quality_score * 10 * required
                   = Min2(10 * required * SCALE,
                          (10 * Cardinality(TypesFound(evidence)) + tenths * required) * SCALE)
            /\ {evidence.kv[i][1] : i \in 1..Len(evidence.kv)} = StagesOf(REQUIRED_EVIDENCE_TYPES)
                   => vstate.evidence_quality_score = SCALE
            /\ vstate.evidence_quality_score >= 0
            /\ vstate.evidence_quality_score <= SCALE

(* The evidence stage scored evidence that holds every required type and   *)
(* an optional field, so that the cap acted                                *)
C25_Witness ==
    /\ EvidenceStageRan
    /\ IsDict(PackageEvidence(vstate))
    /\ TypesFound(PackageEvidence(vstate)) = StagesOf(REQUIRED_EVIDENCE_TYPES)
    /\ OptionalFieldsPresent(PackageEvidence(vstate)) # {}
    /\ vstate.evidence_quality_score = SCALE

----------------------------------------------------------------------------
(* Properties of the aggregation stage *)

(* The aggregation stage returned in the current run *)
FinalStageRan ==
    \/ vpc = "submit_attestation"
    \/ vpc = "returned" /\ ~RunAborted(vstate)

(* 1 if structure_valid else 0 *)
StructureBinary(state) == IF state.structure_valid THEN SCALE ELSE 0

(* Ten times the weighted sum of the three sub-scores (weights in tenths) *)
WeightedSum(config, state) ==
    StructureBinary(state) * config.structure_weight
    + state.content_quality_score * config.content_weight
    + state.evidence_quality_score * config.evidence_weight

(* C26: after the aggregation stage, overall_score is the weighted sum of  *)
(* structureBinary, content_quality_score and evidence_quality_score under *)
(* the verifier's weights, attestation_decision holds exactly when         *)
(* overall_score >= min_approval_threshold, and evaluation_completed is    *)
(* true.                                                                   *)
C26_DecisionRule ==
    FinalStageRan =>
        /\ vstate.overall_score = WeightedSum(verifier.evaluation_config, vstate) \div 10
        /\ vstate.attestation_decision
               <=> (WeightedSum(verifier.evaluation_config, vstate)
                        >= verifier.evaluation_config.min_approval_threshold * SCALE)
        /\ vstate.evaluation_completed

(* An evaluation whose overall score is exactly the threshold is approved *)
C26_Witness ==
    /\ FinalStageRan
    /\ WeightedSum(verifier.evaluation_config, vstate)
           = verifier.evaluation_config.min_approval_threshold * SCALE
    /\ vstate.attestation_decision

----------------------------------------------------------------------------
(* Properties of the evaluation confidence *)

(* |structureBinary - content| + |content - evidence| *)
ScoreVariance(state) ==
    Abs(StructureBinary(state) - state.content_quality_score)
    + Abs(state.content_quality_score - state.evidence_quality_score)

(* C27: after the aggregation stage, evaluation_confidence is              *)
(* max(0.5, 1 - (|structureBinary - content| + |content - evidence|)/2),   *)
(* lies in [0.5, 1], and is 1 exactly when the three sub-scores are equal. *)
C27_ConfidenceFormula ==
    FinalStageRan =>
        /\ 2 * vstate.evaluation_confidence <= Max2(SCALE, 2 * SCALE - ScoreVariance(vstate)) + 1
        /\ 2 * vstate.evaluation_confidence >= Max2(SCALE, 2 * SCALE - ScoreVariance(vstate))
        /\ vstate.evaluation_confidence >= Pct(50)
        /\ vstate.evaluation_confidence <= SCALE
        /\ vstate.evaluation_confidence = SCALE
               <=> /\ StructureBinary(vstate) = vstate.content_quality_score
                   /\ vstate.content_quality_score = vstate.evidence_quality_score

(* An evaluation whose sub-scores disagree by more than 1 in total: the    *)
(* floor acted                                                             *)
C27_Witness ==
    /\ FinalStageRan
    /\ ScoreVariance(vstate) > SCALE
    /\ vstate.evaluation_confidence = Pct(50)

----------------------------------------------------------------------------
(* Properties of the approval of structurally invalid packages *)

(* C30: after the aggregation stage, a package whose structure_valid is    *)
(* false is not approved, whatever the verifier's specialization and the   *)
(* content and evidence scores.                                            *)
C30_InvalidStructureNeverApproved ==
    (FinalStageRan /\ ~vstate.structure_valid) => ~vstate.attestation_decision

----------------------------------------------------------------------------
(* Properties of the evaluation configuration *)

KnownPresets == {"electronics", "inventory", "general"}

(* C29: a verifier whose specialization is not a known preset has the      *)
(* 'general' configuration (weights 0.3/0.4/0.3, approval threshold 0.7),  *)
(* and no step of an evaluation changes a verifier's configuration.        *)
C29_UnknownSpecializationIsGeneral ==
    /\ [](vpc # "idle" /\ verifier.specialization \notin KnownPresets =>
             /\ verifier.evaluation_config.structure_weight = 3
             /\ verifier.evaluation_config.content_weight = 4
             /\ verifier.evaluation_config.evidence_weight = 3
             /\ verifier.evaluation_config.min_approval_threshold = 7
             /\ verifier.evaluation_config = get_evaluation_config("general"))
    /\ [][vpc # "idle" => verifier'.evaluation_config = verifier.evaluation_config]_vars

(* A verifier of an unknown specialization completed an evaluation *)
C29_Witness ==
    /\ vpc = "returned"
    /\ verifier.specialization \notin KnownPresets
    /\ vstate.status = "completed"

----------------------------------------------------------------------------
(* Properties of the decision reason *)

(* The attestation step built its evidence and completed *)
AttestationCompleted == vpc = "returned" /\ vstate.status = "completed"

(* decision_reason of the attestation evidence, as pieces of text *)
DecisionReason == Get(vstate.attestation_evidence, "decision_reason").s

RECURSIVE Concatenated(_)
Concatenated(notes) ==
    IF notes = <<>> THEN <<>>
    ELSE IF Len(notes) = 1 THEN notes[1]
    ELSE notes[1] \o <<"; ">> \o Concatenated(Tail(notes))

(* C28: the decision_reason of an approval is the 'excellent' text for an  *)
(* overall_score >= 0.9, the 'good' text for 0.8 <= overall_score < 0.9,   *)
(* the 'acceptable' text otherwise; that of a rejection concatenates the   *)
(* first three evaluation_notes at most, in their order, or reports the    *)
(* score as below the approval threshold when there are no notes.          *)
C28_DecisionReason ==
    AttestationCompleted =>
        IF vstate.attestation_decision
        THEN /\ 10 * vstate.overall_score >= 9 * SCALE
                    => DecisionReason = <<"Excellent submission quality with complete evidence and accurate data">>
             /\ (10 * vstate.overall_score >= 8 * SCALE /\ 10 * vstate.overall_score < 9 * SCALE)
                    => DecisionReason = <<"Good submission quality with minor issues that do not affect validity">>
             /\ 10 * vstate.overall_score < 8 * SCALE
                    => DecisionReason = <<"Acceptable submission quality meeting minimum requirements">>
        ELSE IF vstate.evaluation_notes = <<>>
        THEN /\ DecisionReason[1] = "Submission quality score "
             /\ DecisionReason[Len(DecisionReason)] = " below approval threshold"
        ELSE DecisionReason
                 = <<"Submission rejected due to: ">>
                   \o Concatenated(SubSeq(vstate.evaluation_notes, 1, Min2(3, Len(vstate.evaluation_notes))))

(* A rejection with more than three notes *)
C28_Witness ==
    /\ AttestationCompleted
    /\ ~vstate.attestation_decision
    /\ Len(vstate.evaluation_notes) > 3

----------------------------------------------------------------------------
(* Properties of what retrieval hands out *)

(* C31: every package retrieve_poa_package returns carries a package_hash  *)
(* that equals the hash recomputed over its other fields.                  *)
C31_RetrievedIsHashVerified ==
    (pc = "retrieved" /\ retrieved # None) =>
        /\ IsDict(retrieved)
        /\ Has(retrieved, "package_hash")
        /\ calculated_hash_of(retrieved) = Get(retrieved, "package_hash")

----------------------------------------------------------------------------
(* Properties of the two consensus rules *)

(* C32: for every collection of results with at least one completed        *)
(* evaluation, the rule of run_quick_demo gives VERIFIED exactly when the  *)
(* rule of run_full_dvn_demo does.                                         *)
C32_ConsensusRulesAgree ==
    (dpc = "done" /\ Successful(verifier_results) >= 1) =>
        (QuickDemoVerdict(QuickDecisions(verifier_results)) = "VERIFIED"
            <=> consensus.consensus_result = "VERIFIED")

----------------------------------------------------------------------------
(* Properties of the consensus counts *)

(* The completed results that reject *)
Rejections(results) ==
    Cardinality({i \in 1..Len(results) :
                    results[i].status = "completed" /\ ~results[i].attestation_decision})

(* C33: the approvals counted are the results with status 'completed' and  *)
(* attestation_decision true, so 0 <= approvals <= successful_evaluations  *)
(* <= total_verifiers and rejections = successful_evaluations - approvals  *)
(* >= 0; a 'failed' result is in neither count, whatever its decision.     *)
C33_CountsConsistent ==
    dpc = "done" =>
        /\ consensus.approval_count = Approvals(verifier_results)
        /\ consensus.successful_evaluations = Successful(verifier_results)
        /\ consensus.total_verifiers = Len(verifier_results)
        /\ 0 <= consensus.approval_count
        /\ consensus.approval_count <= consensus.successful_evaluations
        /\ consensus.successful_evaluations <= consensus.total_verifiers
        /\ consensus.rejection_count = consensus.successful_evaluations - consensus.approval_count
        /\ consensus.rejection_count >= 0
        /\ consensus.rejection_count = Rejections(verifier_results)

(* Counts taken over results that hold a failed evaluation with a true     *)
(* decision next to an approval and a rejection                            *)
C33_Witness ==
    /\ dpc = "done"
    /\ \E i \in 1..Len(verifier_results) :
          verifier_results[i].status = "failed" /\ verifier_results[i].attestation_decision
    /\ consensus.approval_count >= 1
    /\ consensus.rejection_count >= 1

----------------------------------------------------------------------------
(* Properties of the end of evaluate_submission *)

(* C34: every call of evaluate_submission returns, and the state it        *)
(* returns has status 'completed' or 'failed'.                             *)
C34_EvaluationTerminates ==
    /\ [](vpc = "returned" => vstate.status \in {"completed", "failed"})
    /\ (vpc = "initialize") ~> (vpc = "returned")

(* A call whose workflow raised has returned *)
C34_Witness ==
    /\ vpc = "returned"
    /\ vstate.status = "failed"
    /\ vstate.current_step = "initializing"
    /\ vresponse.asked

----------------------------------------------------------------------------
(* Properties of a completed evaluation *)

(* C35: in every completed verifier result evaluation_completed is true,   *)
(* attestation_signature and tx_hash are non-empty, and the attestation    *)
(* evidence records the overall score, the confidence, structure_valid and *)
(* the content and evidence scores of that same state, with the agent id   *)
(* and the specialization of the verifier.                                 *)
C35_CompletedResultIsAttested ==
    AttestationCompleted =>
        /\ vstate.evaluation_completed
        /\ vstate.attestation_signature.s # <<>>
        /\ vstate.tx_hash.s # <<>>
        /\ LET evidence == vstate.attestation_evidence IN
              /\ Get(evidence, "overall_score") = Num(vstate.overall_score)
              /\ Get(evidence, "evaluation_confidence") = Num(vstate.evaluation_confidence)
              /\ Get(evidence, "structure_valid") = Bool(vstate.structure_valid)
              /\ Get(evidence, "content_quality_score") = Num(vstate.content_quality_score)
              /\ Get(evidence, "evidence_quality_score") = Num(vstate.evidence_quality_score)
              /\ Get(evidence, "verifier_agent_id") = S(vstate.agent_id)
              /\ Get(evidence, "verifier_agent_id") = S(verifier.agent_id)
              /\ Get(evidence, "specialization") = S(verifier.specialization)

C35_Witness ==
    /\ AttestationCompleted
    /\ ~verifier.simulation_mode
    /\ vsign = "ok"
    /\ vstate.overall_score > 0
    /\ vstate.attestation_decision

(* The workflow raised out of a node: evaluate_submission returned a       *)
(* failed state that the handler of the attestation node did not build.    *)
WorkflowAborted ==
    /\ vpc = "returned"
    /\ vstate.status = "failed"
    /\ vsign \notin {"raise", "raise_after_sign"}

(* C36: when the verifier workflow aborts with an exception, the returned  *)
(* state is the initial state with only status ('failed'), error_message   *)
(* and completed_at changed: the decision is false, evaluation_completed   *)
(* is false, every score is 0 and the signature and tx_hash are empty.     *)
C36_AbortReturnsInitialState ==
    WorkflowAborted =>
        /\ vstate = [VerifierInitialState(verifier, vstate.submission_id) EXCEPT
                        !.status = "failed",
                        !.error_message = vstate.error_message,
                        !.completed_at = vstate.completed_at]
        /\ ~vstate.attestation_decision
        /\ ~vstate.evaluation_completed
        /\ vstate.content_quality_score = 0
        /\ vstate.evidence_quality_score = 0
        /\ vstate.overall_score = 0
        /\ vstate.evaluation_confidence = 0
        /\ vstate.attestation_signature = Str(<<>>)
        /\ vstate.tx_hash = Str(<<>>)

C36_Witness ==
    /\ WorkflowAborted
    /\ vresponse.asked
    /\ vstate.error_message # ""
    /\ vstate.completed_at # Str(<<>>)

----------------------------------------------------------------------------
(* Properties of the Worker workflow *)

(* The nodes of the Worker workflow in the order of its edges *)
WorkerStageOrder == <<"initialize", "scan", "create_poa", "upload", "submit", "returned">>

WorkerRunning == pc \in (StagesOf(WorkerStageOrder) \ {"returned"})

(* The values of current_step a node of the Worker workflow writes *)
WorkerStepsOf(stage) ==
    CASE stage = "initialize" -> {"scanning"}
      [] stage = "scan"       -> {"scan_completed"}
      [] stage = "create_poa" -> {"poa_created"}
      [] stage = "upload"     -> {"ipfs_uploaded", "ipfs_failed"}
      [] stage = "submit"     -> {"submitted", "failed"}

(* C37: for a valid action type the Worker workflow runs initialize, scan, *)
(* create_poa, upload and submit in that order, each once, and             *)
(* execute_verification returns a state whose status is 'submitted' or     *)
(* 'failed'; in simulation mode the status is 'submitted', scan_completed  *)
(* is true, package_hash is non-empty and is the hash of the package       *)
(* built, and ipfs_hash and tx_hash are non-empty.                         *)
C37_WorkerRunsToSubmission ==
    /\ [][WorkerRunning =>
            /\ pc' = WorkerStageOrder[PlaceIn(WorkerStageOrder, pc) + 1]
            /\ wstate'.current_step \in WorkerStepsOf(pc)]_<<pc, wstate>>
    /\ [][pc = "returned" => pc' = "returned" /\ wstate' = wstate]_<<pc, wstate>>
    /\ [](pc = "returned" =>
            /\ wstate.status \in {"submitted", "failed"}
            /\ worker.simulation_mode =>
                  /\ wstate.status = "submitted"
                  /\ wstate.scan_completed
                  /\ wstate.package_hash.s # <<>>
                  /\ wstate.package_hash = Get(wstate.poa_package, "package_hash")
                  /\ wstate.package_hash = calculated_hash_of(wstate.poa_package)
                  /\ wstate.ipfs_hash.s # <<>>
                  /\ wstate.tx_hash.s # <<>>)
    /\ (pc = "initialize") ~> (pc = "returned")

C37_Witness ==
    /\ pc = "returned"
    /\ worker.simulation_mode
    /\ wstate.status = "submitted"
    /\ wstate.current_step = "submitted"
    /\ wstate.total_items > 0

(* C38: the submission identifier is the same end to end: the             *)
(* submission_id of the Worker's final state is the submission_id of the   *)
(* package it built, and every verifier of the demo is handed that         *)
(* identifier.                                                             *)
C38_SubmissionIdEndToEnd ==
    (pc = "returned" /\ wstate.status = "submitted") =>
        /\ wstate.submission_id = Get(wstate.poa_package, "submission_id")
        /\ \A i \in FleetIds :
              fpc[i] # "idle" =>
                 /\ fstate[i].submission_id = wstate.submission_id
                 /\ fstate[i].submission_id = Get(wstate.poa_package, "submission_id")

----------------------------------------------------------------------------
(* Properties of the IPFSClient *)

(* client.get_json was not called *)
NodeNotContacted == node_response = [raised |-> FALSE, value |-> None]

====
